---- MODULE Spec2Model ----
(***************************************************************************)
(* Model of the execution engine of bad-lang-2 (src/src/runtime/mod.rs)    *)
(* together with the parts of the tokenizer (src/src/token/mod.rs) that    *)
(* decide the shape of the statement tree the engine walks.                *)
(*                                                                         *)
(* The engine is a recursive tree walker: Runtime::execute and             *)
(* Runtime::extract_value call each other.  They are modelled as the       *)
(* recursive operators execute and extract_value over a record s that      *)
(* carries the fields of Runtime, the cells (Arc<RwLock<ExpressionToken>>) *)
(* as a heap indexed by cell identity, and a trace of what was executed.   *)
(* One action of the model is one iteration of the loop of Runtime::run.   *)
(*                                                                         *)
(* thread#launch (src/src/token/runtime/thread.rs) starts a second Runtime *)
(* on its own OS thread.  The runtimes of the spawned threads are kept in  *)
(* threads; they share the heap of cells with the main runtime and take    *)
(* their steps, one statement at a time, in any order with it.             *)
(***************************************************************************)
EXTENDS Integers, Sequences, FiniteSets, TLC

VARIABLES tokens, pc, scopes, call_stack, lookup_cache, modified_vars,
          heap, log, nest, nexta, halt, threads

vars == <<tokens, pc, scopes, call_stack, lookup_cache, modified_vars,
          heap, log, nest, nexta, halt, threads>>

(***************************************************************************)
(* Bounds                                                                  *)
(***************************************************************************)
\* largest number literal used as an input of the programs
MaxVal == 2
\* largest break threshold of the counting loops
MaxN == 5
\* passes a loop may make before the run is declared non-terminating
MaxPasses == MaxN + 2
\* the largest number of method calls of a program
MaxCalls == 3

(***************************************************************************)
(* Option<T>                                                               *)
(***************************************************************************)
None == [some |-> FALSE]
Some(x) == [some |-> TRUE, v |-> x]

(***************************************************************************)
(* HashMap<String, _> as a function with a finite domain                   *)
(***************************************************************************)
EmptyMap == [n \in {} |-> 0]
MapInsert(m, k, v) == [n \in (DOMAIN m) \cup {k} |-> IF n = k THEN v ELSE m[n]]
\* HashMap::extend(other): entries of other win
MapExtend(m, other) ==
    [n \in (DOMAIN m) \cup (DOMAIN other) |-> IF n \in DOMAIN other THEN other[n] ELSE m[n]]

(***************************************************************************)
(* ValueToken (src/src/token/base.rs)                                      *)
(***************************************************************************)
NullToken == [t |-> "Null"]
NumberToken(n) == [t |-> "Number", value |-> n]
\* the f64 -0.0 (the literal -0): it equals 0.0 and keeps its sign
NegZeroToken == [t |-> "Number", value |-> 0, sign |-> "-"]
BooleanToken(b) == [t |-> "Boolean", value |-> b]
StringToken(str) == [t |-> "String", value |-> str]
FunctionToken(name, args, body) ==
    [t |-> "Function", name |-> name, args |-> args, body |-> body]
ClassToken(name, args, body) ==
    [t |-> "Class", name |-> name, args |-> args, body |-> body]
ClassInstanceToken(class, scope) ==
    [t |-> "ClassInstance", class |-> class, scope |-> scope]
\* value is the Vec<ExpressionToken> behind the Arc, here a sequence of values
ArrayToken(elems) == [t |-> "Array", value |-> elems]
\* an ArrayToken whose Arc<RwLock<Vec<..>>> is the heap slot arc: every clone
\* of the token holds the same arc; value is the Vec as it was last read
ArrayTokenAt(arc, elems) == [t |-> "Array", value |-> elems, arc |-> arc]
RangeToken(start, end) == [t |-> "Range", start |-> start, end |-> end]
\* value is the Vec<u8> behind the Arc
BufferToken(bytes) == [t |-> "Buffer", value |-> bytes]
\* memory is the identity of the Arc<Mutex<Box<dyn Any>>>: for a thread
\* handle, the position of the spawned runtime in threads
NativeMemoryToken(name, memory) ==
    [t |-> "NativeMemory", name |-> name, memory |-> memory]

\* f64::to_string / bool::to_string of the values the model uses
RenderNumber(n) == ToString(n)
\* f64::to_string writes the sign of a negative zero
RenderF64(v) == IF "sign" \in DOMAIN v THEN "-" \o RenderNumber(v.value) ELSE RenderNumber(v.value)

RECURSIVE JoinArgs(_)
JoinArgs(args) ==
    IF Len(args) = 0 THEN ""
    ELSE IF Len(args) = 1 THEN args[1]
    ELSE args[1] \o ", " \o JoinArgs(Tail(args))

\* BaseToken::inspect for the value kinds whose value() is their inspect()
inspect(v) ==
    CASE v.t = "Function" ->
            "Function(" \o v.name \o ": " \o JoinArgs(v.args) \o ") { <"
                \o ToString(Len(v.body)) \o " tokens> }"
      [] v.t = "Class" -> "Class(" \o v.name \o ") { }"
      [] v.t = "NativeMemory" -> "NativeMemory(" \o v.name \o ") { <native> }"
      [] v.t = "ClassInstance" ->
            "ClassInstance(" \o v.class.name \o ") { "
                \o ToString(Cardinality(DOMAIN v.scope)) \o " variables }"
      [] OTHER -> "Null"

\* " ".repeat(spaces)
RECURSIVE Spaces(_)
Spaces(n) == IF n = 0 THEN "" ELSE " " \o Spaces(n - 1)

\* format!("{byte:02x} ")
HexDigit(n) == <<"0", "1", "2", "3", "4", "5", "6", "7",
                 "8", "9", "a", "b", "c", "d", "e", "f">>[n + 1]
RenderByte(byte) == HexDigit(byte \div 16) \o HexDigit(byte % 16) \o " "
RECURSIVE RenderBytes(_)
RenderBytes(bytes) ==
    IF Len(bytes) = 0 THEN "" ELSE RenderByte(bytes[1]) \o RenderBytes(Tail(bytes))

\* BaseToken::value(spaces): the rendered, user-facing form
RECURSIVE value_spaces(_, _), ArrayLines(_, _)
ArrayLines(elems, spaces) ==
    IF Len(elems) = 0 THEN ""
    ELSE value_spaces(elems[1], spaces) \o "\n" \o ArrayLines(Tail(elems), spaces)
value_spaces(v, spaces) ==
    CASE v.t = "String" -> Spaces(spaces) \o v.value
      [] v.t = "Number" -> Spaces(spaces) \o RenderF64(v)
      [] v.t = "Boolean" -> Spaces(spaces) \o (IF v.value THEN "true" ELSE "false")
      [] v.t = "Null" -> Spaces(spaces) \o "null"
      [] v.t = "Array" ->
            Spaces(spaces) \o "[\n" \o ArrayLines(v.value, spaces + 2)
                \o Spaces(spaces) \o "]"
      [] v.t = "Range" ->
            value_spaces(v.start, spaces) \o ".." \o value_spaces(v.end, spaces)
      [] v.t = "Buffer" -> Spaces(spaces) \o RenderBytes(v.value)
      [] OTHER -> inspect(v)

\* value(0), as the comparison operators call it
value(v) == value_spaces(v, 0)

\* a truthy under which every buffer counts as true
truthy_every_buffer(v) ==
    CASE v.t = "String" -> v.value # ""
      [] v.t = "Number" -> v.value # 0
      [] v.t = "Boolean" -> v.value
      [] v.t = "Null" -> FALSE
      [] v.t = "Array" -> Len(v.value) # 0
      [] OTHER -> TRUE

\* BaseToken::truthy
truthy(v) ==
    CASE v.t = "String" -> v.value # ""
      [] v.t = "Number" -> v.value # 0
      [] v.t = "Boolean" -> v.value
      [] v.t = "Null" -> FALSE
      [] v.t = "Array" -> Len(v.value) # 0
      [] v.t = "Buffer" -> Len(v.value) # 0
      [] OTHER -> TRUE

\* PartialEq<BufferToken> for BufferToken: the first pair of the zip of the two
\* byte vectors that differs gives false; the zip ends with the shorter vector
RECURSIVE BufferEq(_, _)
BufferEq(left, right) ==
    IF Len(left) = 0 \/ Len(right) = 0 THEN TRUE
    ELSE IF left[1] # right[1] THEN FALSE
    ELSE BufferEq(Tail(left), Tail(right))

\* PartialEq<ValueToken> for ValueToken: the other composite kinds are never
\* equal
StrictEq(l, r) ==
    /\ l.t = r.t
    /\ CASE l.t \in {"String", "Number", "Boolean"} -> l.value = r.value
         [] l.t = "Null" -> TRUE
         [] l.t = "Buffer" -> BufferEq(l.value, r.value)
         [] OTHER -> FALSE

(***************************************************************************)
(* ExpressionToken and Token (src/src/token/logic.rs, mod.rs)              *)
(***************************************************************************)
Value(v) == [e |-> "Value", value |-> v]
\* ExpressionToken::Let: a reference to a variable by name
VariableRef(name) == [e |-> "Let", name |-> name]
\* meval::Expr: a sum of terms, each a variable or a number literal
MVar(name) == [var |-> name]
MNum(n) == [num |-> n]
Math(terms) == [e |-> "Math", terms |-> terms]
Comparison(op, l, r) == [e |-> "Comparison", operator |-> op, left |-> l, right |-> r]
\* the value of a LetToken that is the Arc of an existing cell, not a new one
CellExpr(cell) == [e |-> "Cell", cell |-> cell]
FnCallExpr(name, args) == [e |-> "FnCall", name |-> name, args |-> args]
StaticClassFnCallExpr(name, class, args) ==
    [e |-> "StaticClassFnCall", name |-> name, class |-> class, args |-> args]
ClassFnCallExpr(name, instance, args) ==
    [e |-> "ClassFnCall", name |-> name, instance |-> instance, args |-> args]
ClassInstantiation(class, args) == [e |-> "ClassInstantiation", class |-> class, args |-> args]
ReturnExpr(expr) == [e |-> "Return", value |-> expr]

LetToken(name, expr) == [t |-> "Let", name |-> name, value |-> expr]
LetAssignToken(name, expr) == [t |-> "LetAssign", name |-> name, value |-> expr]
LetAssignNumToken(name, op, expr) ==
    [t |-> "LetAssignNum", name |-> name, operation |-> op, value |-> expr]
FnCallToken(name, args) == [t |-> "FnCall", name |-> name, args |-> args]
StaticClassFnCallToken(name, class, args) ==
    [t |-> "StaticClassFnCall", name |-> name, class |-> class, args |-> args]
ClassFnCallToken(name, instance, args) ==
    [t |-> "ClassFnCall", name |-> name, instance |-> instance, args |-> args]
LoopToken(body) == [t |-> "Loop", body |-> body]
IfToken(reversed, cond, body) ==
    [t |-> "If", reversed |-> reversed, condition |-> cond, body |-> body]
BreakToken == [t |-> "Break"]
ReturnToken(expr) == [t |-> "Return", value |-> expr]

\* the fallthrough result of execute: Some(Value(Null))
Fallthrough == Some(Value(NullToken))
IsReturn(res) == res.some /\ res.v.e = "Return"

(***************************************************************************)
(* Tokenizer::tokenize: what `fn` and `class` lines put into the tree      *)
(***************************************************************************)
\* one synthetic `let <arg> = null` per declared parameter
\* a tokenizer that puts no let in for the parameters
SyntheticLets_none(args) == <<>>
SyntheticLets(args) == [i \in 1..Len(args) |-> LetToken(args[i], Value(NullToken))]

\* `fn name(args) {` followed by the statements of body and `}`
FnDecl(name, args, body) ==
    LetToken(name, Value(FunctionToken(name, args, SyntheticLets(args) \o body)))

\* `class name(args) {` followed by the statements of body and `}`
ClassDecl(name, args, body) ==
    LetToken(name, Value(ClassToken(name, args, SyntheticLets(args) \o body)))

(***************************************************************************)
(* Runtime state threaded through the engine                               *)
(*   scopes, call_stack, lookup_cache, modified_vars : the fields of       *)
(*       Runtime (cells are named by their identity, a positive number)    *)
(*   heap  : the content of every cell allocated so far                    *)
(*   halt  : "ok", "panic" (an unwrap of None or an explicit panic! aborts *)
(*           the process) or "diverged" (a loop exceeded MaxPasses)        *)
(*   log, nest, nexta : the trace of the run; they never influence it      *)
(***************************************************************************)
Halted(s) == s.halt # "ok"
Panic(s) == IF Halted(s) THEN s ELSE [s EXCEPT !.halt = "panic"]

\* Arc::new(RwLock::new(..)): a cell identity no cell has had before
NewCell(s) == Cardinality(DOMAIN s.heap) + 1

\* the innermost-to-outermost walk over the frames (lines 60-69, without the
\* cache repair): the cell bound to name, 0 when no frame binds it
RECURSIVE WalkFrom(_, _, _)
WalkFrom(frames, i, name) ==
    IF i = 0 THEN 0
    ELSE IF name \in DOMAIN frames[i] THEN frames[i][name]
    ELSE WalkFrom(frames, i - 1, name)
Walk(frames, name) == WalkFrom(frames, Len(frames), name)

\* the cell lookup_variable returns for name in the state given by the three
\* structures, 0 for None
Resolve(frames, cache, modified, name) ==
    IF name \notin modified /\ name \in DOMAIN cache THEN cache[name]
    ELSE Walk(frames, name)

\* trace entry; the snapshot shows frames and cells as they are at that point
Snap(s) == [scopes |-> s.scopes, heap |-> s.heap,
            cache |-> s.lookup_cache, modified |-> s.modified_vars,
            call_stack |-> s.call_stack, locks |-> s.locks]
Log(s, entry) == IF Halted(s) THEN s ELSE [s EXCEPT !.log = Append(@, entry)]
Enter(s, mode) ==
    IF Halted(s) THEN s
    ELSE [s EXCEPT !.nest = Append(@, [mode |-> mode, id |-> s.nexta]),
                   !.nexta = @ + 1]
Leave(s) ==
    IF Halted(s) THEN s ELSE [s EXCEPT !.nest = SubSeq(@, 1, Len(@) - 1)]

\* Runtime::scope_set: mark dirty, put into the cache, bind in the innermost frame
scope_set(s, name, cell) ==
    IF Halted(s) THEN s
    ELSE [s EXCEPT !.modified_vars = @ \cup {name},
                   !.lookup_cache = MapInsert(@, name, cell),
                   !.scopes[Len(s.scopes)] = MapInsert(@, name, cell)]

\* scope_set on a freshly allocated cell holding Value(val)
scope_set_new(s, name, val) ==
    IF Halted(s) THEN s
    ELSE LET c == NewCell(s)
         IN scope_set([s EXCEPT !.heap = MapInsert(@, c, val)], name, c)

\* Runtime::lookup_variable: the state (the cache is repaired on a miss) and
\* the cell, 0 for None
lookup_variable(s, name) ==
    IF name \notin s.modified_vars /\ name \in DOMAIN s.lookup_cache
    THEN [s |-> s, cell |-> s.lookup_cache[name]]
    ELSE LET c == Walk(s.scopes, name)
         IN IF c = 0 THEN [s |-> s, cell |-> 0]
            ELSE [s |-> [s EXCEPT !.lookup_cache = MapInsert(@, name, c),
                                  !.modified_vars = @ \ {name}],
                  cell |-> c]

\* the flattened stack: every bound name with its innermost cell
Flatten(frames) ==
    LET names == UNION {DOMAIN frames[i] : i \in 1..Len(frames)}
    IN [n \in names |-> Walk(frames, n)]

\* a rebuild without cache.clear(): an entry already in the cache stays
rebuild_lookup_cache_keeping(s) ==
    IF Halted(s) THEN s
    ELSE [s EXCEPT !.lookup_cache =
                      [n \in DOMAIN s.lookup_cache \cup DOMAIN Flatten(s.scopes) |->
                          IF n \in DOMAIN s.lookup_cache THEN s.lookup_cache[n]
                          ELSE Flatten(s.scopes)[n]],
                   !.modified_vars = {}]

\* Runtime::rebuild_lookup_cache
rebuild_lookup_cache(s) ==
    IF Halted(s) THEN s
    ELSE [s EXCEPT !.lookup_cache = Flatten(s.scopes), !.modified_vars = {}]

\* the trace entry of a scope_aggregate call that returned map in state s
aggregated(s, force, map) ==
    [s |-> Log(s, [k |-> "aggregate", ctx |-> s.nest, force |-> force,
                   map |-> map, snap |-> Snap(s)]),
     map |-> map]

\* Runtime::scope_aggregate: the state and the returned map
scope_aggregate(s, force) ==
    IF ~force /\ s.modified_vars = {} /\ DOMAIN s.lookup_cache # {}
    THEN aggregated(s, force, s.lookup_cache)
    ELSE aggregated(rebuild_lookup_cache(s), force, rebuild_lookup_cache(s).lookup_cache)

\* Runtime::scope_create
scope_create(s) ==
    IF Halted(s) THEN s ELSE [s EXCEPT !.scopes = Append(@, EmptyMap)]

\* self.scopes.pop()
scope_pop(s) ==
    IF Halted(s) THEN s ELSE [s EXCEPT !.scopes = SubSeq(@, 1, Len(@) - 1)]

call_stack_push(s, inside) ==
    IF Halted(s) THEN s ELSE [s EXCEPT !.call_stack = Append(@, inside)]
call_stack_pop(s) ==
    IF Halted(s) THEN s ELSE [s EXCEPT !.call_stack = SubSeq(@, 1, Len(@) - 1)]

\* var.read().unwrap() kept in a temporary of an `if let` scrutinee: the
\* RwLockReadGuard lives until the `if let` ends; locks is the stack of the
\* cells whose read guard this thread holds
read_lock(s, cell) ==
    IF Halted(s) THEN s ELSE [s EXCEPT !.locks = Append(@, cell)]
\* the guard is dropped
read_unlock(s) ==
    IF Halted(s) THEN s ELSE [s EXCEPT !.locks = SubSeq(@, 1, Len(@) - 1)]
read_unlock_result(r) == [s |-> read_unlock(r.s), res |-> r.res]
read_unlock_value(r) == [s |-> read_unlock(r.s), val |-> r.val]

\* *var.write().unwrap() = Value(val): RwLock::write on a lock the calling
\* thread holds a read guard of never returns ("selflock": it blocks for ever
\* or panics, as the platform's lock has it)
cell_write(s, cell, val) ==
    IF Halted(s) THEN s
    ELSE IF \E i \in 1..Len(s.locks) : s.locks[i] = cell
    THEN [s EXCEPT !.halt = "selflock"]
    ELSE [s EXCEPT !.heap[cell] = val]

\* value.clone() of a ValueToken: the clone of an array holds the Arc of the
\* original, so it shows the Vec behind that Arc as it is now
value_clone(s, v) ==
    IF v.t = "Array" /\ "arc" \in DOMAIN v
    THEN ArrayTokenAt(v.arc, s.heap[v.arc].elems)
    ELSE v

(***************************************************************************)
(* The engine: Runtime::execute and Runtime::extract_value                 *)
(***************************************************************************)
\* NumOperation applied in place by LetAssignNum
ApplyNum(op, n, v) ==
    CASE op = "Add" -> n + v
      [] op = "Sub" -> n - v
      [] op = "Mul" -> n * v

\* the comparison operators of extract_value on two extracted values
Compare(op, l, r) ==
    CASE op = "==" -> value(l) = value(r)
      [] op = "===" -> StrictEq(l, r)
      [] op = "!=" -> value(l) # value(r)
      [] op = "!==" -> ~StrictEq(l, r)
      [] op = ">" -> l.t = "Number" /\ r.t = "Number" /\ l.value > r.value
      [] op = ">=" -> l.t = "Number" /\ r.t = "Number" /\ l.value >= r.value
      [] op = "<" -> l.t = "Number" /\ r.t = "Number" /\ l.value < r.value
      [] op = "<=" -> l.t = "Number" /\ r.t = "Number" /\ l.value <= r.value

\* meval: Expr::eval_with_context over the numeric variables of the context;
\* None when a variable of the formula is not in the context
RECURSIVE SumTerms(_, _)
SumTerms(terms, ctx) ==
    IF Len(terms) = 0 THEN 0
    ELSE (IF "var" \in DOMAIN terms[1] THEN ctx[terms[1].var] ELSE terms[1].num)
         + SumTerms(Tail(terms), ctx)
EvalMath(terms, ctx) ==
    IF \A i \in 1..Len(terms) : "var" \in DOMAIN terms[i] => terms[i].var \in DOMAIN ctx
    THEN Some(SumTerms(terms, ctx))
    ELSE None

\* which results make the `for token in body.iter()` of a construct stop:
\* a loop stops on None only (lines 132-137), an if and a function body on
\* None and on Return (lines 165-181, 244-256), a class body never (602-604)
StopsOnNone(mode) == mode \in {"Loop", "If", "Function"}
StopsOnReturn(mode) == mode \in {"If", "Function"}

RECURSIVE execute(_, _), extract_value(_, _), run_body(_, _, _, _),
          loop_passes(_, _, _), bind_args(_, _, _, _, _), bind_class_args(_, _, _, _)

\* one statement of a body, or of the program, with its two trace entries
run_statement_done(r, ctx, i, tok) ==
    [s |-> Log(r.s, [k |-> "done", ctx |-> ctx, i |-> i, tok |-> tok,
                     res |-> r.res, snap |-> Snap(r.s)]),
     res |-> r.res]
run_statement(s, i, tok) ==
    run_statement_done(
        execute(Log(s, [k |-> "exec", ctx |-> s.nest, i |-> i, tok |-> tok,
                        snap |-> Snap(s)]), tok),
        s.nest, i, tok)

\* what the `for token in body.iter()` of a construct does with the result r
\* of statement i
run_body_next(r, ctx, body, i, mode) ==
    IF Halted(r.s) THEN [s |-> r.s, out |-> "done", v |-> None]
    ELSE IF ~r.res.some /\ StopsOnNone(mode)
    THEN [s |-> Log(r.s, [k |-> "stop", ctx |-> ctx, i |-> i, tok |-> body[i],
                          res |-> r.res]),
          out |-> "none", v |-> None]
    ELSE IF IsReturn(r.res) /\ StopsOnReturn(mode)
    THEN [s |-> Log(r.s, [k |-> "stop", ctx |-> ctx, i |-> i, tok |-> body[i],
                          res |-> r.res]),
          out |-> "ret", v |-> r.res]
    ELSE run_body(r.s, body, i + 1, mode)

\* the statements of a body from index i on; out is "none" (a statement
\* yielded None), "ret" (it yielded Return, in v) or "done"
run_body(s, body, i, mode) ==
    IF Halted(s) \/ i > Len(body) THEN [s |-> s, out |-> "done", v |-> None]
    ELSE run_body_next(run_statement(s, i, body[i]), s.nest, body, i, mode)

\* the end of a pass r of a loop (lines 140-146): exit on break, else clear
\* the frame, the dirty set and the cache and start the next pass
loop_pass_end(r, body, fuel) ==
    IF Halted(r.s) \/ r.out = "none" THEN r.s
    ELSE loop_passes(
           Enter(Leave([r.s EXCEPT !.scopes[Len(r.s.scopes)] = EmptyMap,
                                   !.modified_vars = {},
                                   !.lookup_cache = EmptyMap]), "Loop"),
           body, fuel - 1)

\* the `loop { .. }` of Token::Loop (lines 129-146) with fuel passes left
loop_passes(s, body, fuel) ==
    IF Halted(s) THEN s
    ELSE IF fuel = 0 THEN [s EXCEPT !.halt = "diverged"]
    ELSE loop_pass_end(run_body(s, body, 1, "Loop"), body, fuel)

\* scope_set of a parameter to the extracted argument r; unwrap panics on None
bind_value(r, name) ==
    IF ~r.val.some THEN Panic(r.s)
    ELSE Log(scope_set_new(r.s, name, r.val.v),
             [k |-> "bind", ctx |-> r.s.nest, name |-> name,
              cell |-> NewCell(r.s), val |-> r.val.v])

\* the argument binding of a call (lines 231-240; with shift = 1 the one of
\* a method call, lines 348-363): parameter index (0-based) is bound to the
\* value of argument index - shift when there is one
bind_args(s, params, args, index, shift) ==
    IF Halted(s) \/ index >= Len(params) THEN s
    ELSE IF index - shift + 1 > Len(args)
    THEN bind_args(s, params, args, index + 1, shift)
    ELSE bind_args(bind_value(extract_value(s, args[index - shift + 1]), params[index + 1]),
                   params, args, index + 1, shift)

\* the argument binding of a class instantiation (lines 593-600): every
\* argument is bound, class_token.args[i] panics when there is no such parameter
bind_class_args(s, params, args, i) ==
    IF Halted(s) \/ i > Len(args) THEN s
    ELSE IF i > Len(params) THEN Panic(extract_value(s, args[i]).s)
    ELSE bind_class_args(bind_value(extract_value(s, args[i]), params[i]),
                         params, args, i + 1)

\* a let without the contains_key test: it binds a new cell every time
execute_Let_value_overwriting(r, token) ==
    IF Halted(r.s) THEN [s |-> r.s, res |-> None]
    ELSE IF ~r.val.some THEN [s |-> Panic(r.s), res |-> None]
    ELSE [s |-> Log(scope_set_new(r.s, token.name, r.val.v),
                    [k |-> "let", ctx |-> r.s.nest, name |-> token.name,
                     bound |-> token.name \notin DOMAIN r.s.scopes[Len(r.s.scopes)],
                     cell |-> NewCell(r.s), val |-> r.val.v,
                     outer |-> Walk(r.s.scopes, token.name),
                     outerval |-> IF Walk(r.s.scopes, token.name) = 0 THEN NullToken
                                  ELSE r.s.heap[Walk(r.s.scopes, token.name)]]),
          res |-> Fallthrough]

\* Token::Let once the value r is extracted (lines 112-121)
execute_Let_value(r, token) ==
    IF Halted(r.s) THEN [s |-> r.s, res |-> None]
    ELSE IF ~r.val.some THEN [s |-> Panic(r.s), res |-> None]
    ELSE IF token.name \in DOMAIN r.s.scopes[Len(r.s.scopes)]
    THEN [s |-> Log(r.s, [k |-> "let", ctx |-> r.s.nest, name |-> token.name,
                          bound |-> FALSE, cell |-> 0, val |-> r.val.v,
                          outer |-> 0, outerval |-> NullToken]),
          res |-> Fallthrough]
    ELSE [s |-> Log(scope_set_new(r.s, token.name, r.val.v),
                    [k |-> "let", ctx |-> r.s.nest, name |-> token.name,
                     bound |-> TRUE, cell |-> NewCell(r.s), val |-> r.val.v,
                     outer |-> Walk(r.s.scopes, token.name),
                     outerval |-> IF Walk(r.s.scopes, token.name) = 0 THEN NullToken
                                  ELSE r.s.heap[Walk(r.s.scopes, token.name)]]),
          res |-> Fallthrough]

\* let_token.value.read(): the expression the Arc of the token holds now
let_token_value_read(s, token) ==
    IF token.value.e = "Cell" THEN Value(s.heap[token.value.cell]) ELSE token.value

execute_Let(s, token) ==
    execute_Let_value(extract_value(s, let_token_value_read(s, token)), token)

\* a loop that hands the break that stopped it on to the enclosing construct
execute_Loop_propagating(s, token) ==
    [s |-> rebuild_lookup_cache(call_stack_pop(scope_pop(Leave(
              loop_passes(Enter(scope_create(call_stack_push(s, "Loop")), "Loop"),
                          token.body, MaxPasses))))),
     res |-> None]

execute_Loop(s, token) ==
    [s |-> rebuild_lookup_cache(call_stack_pop(scope_pop(Leave(
              loop_passes(Enter(scope_create(call_stack_push(s, "Loop")), "Loop"),
                          token.body, MaxPasses))))),
     res |-> Fallthrough]

\* an if that does not hand a break of its body on to the enclosing loop
execute_If_exit_absorbing(r) ==
    [s |-> rebuild_lookup_cache(call_stack_pop(scope_pop(Leave(r.s)))),
     res |-> IF r.out = "ret" THEN r.v ELSE Fallthrough]

\* Token::If after its body ran with outcome r (lines 165-186)
execute_If_exit(r) ==
    [s |-> rebuild_lookup_cache(call_stack_pop(scope_pop(Leave(r.s)))),
     res |-> IF r.out = "none" THEN None
             ELSE IF r.out = "ret" THEN r.v
             ELSE Fallthrough]

\* an if that leaves its call-stack entry behind when its body is not taken
execute_If_condition_unpopped(c, token) ==
    IF Halted(c.s) THEN [s |-> c.s, res |-> None]
    ELSE IF ~c.val.some THEN [s |-> Panic(c.s), res |-> None]
    ELSE IF (token.reversed /\ ~truthy(c.val.v)) \/ (~token.reversed /\ truthy(c.val.v))
    THEN execute_If_exit(run_body(Enter(scope_create(c.s), "If"), token.body, 1, "If"))
    ELSE [s |-> c.s, res |-> Fallthrough]

\* Token::If once the condition c is extracted (lines 156-187)
execute_If_condition(c, token) ==
    IF Halted(c.s) THEN [s |-> c.s, res |-> None]
    ELSE IF ~c.val.some THEN [s |-> Panic(c.s), res |-> None]
    ELSE IF (token.reversed /\ ~truthy(c.val.v)) \/ (~token.reversed /\ truthy(c.val.v))
    THEN execute_If_exit(run_body(Enter(scope_create(c.s), "If"), token.body, 1, "If"))
    ELSE [s |-> call_stack_pop(c.s), res |-> Fallthrough]

execute_If(s, token) ==
    execute_If_condition(extract_value(call_stack_push(s, "If"), token.condition), token)

\* a break that yields no value whether or not a loop is on the call stack
execute_Break_always(s, token) == [s |-> s, res |-> None]

execute_Break(s, token) ==
    IF \E i \in 1..Len(s.call_stack) : s.call_stack[i] = "Loop"
    THEN [s |-> s, res |-> None]
    ELSE [s |-> s, res |-> Fallthrough]

\* Token::Return once the value r is extracted (lines 197-201)
execute_Return_value(r) ==
    IF Halted(r.s) THEN [s |-> r.s, res |-> None]
    ELSE IF ~r.val.some THEN [s |-> Panic(r.s), res |-> None]
    ELSE [s |-> r.s, res |-> Some(ReturnExpr(Value(r.val.v)))]

execute_Return(s, token) == execute_Return_value(extract_value(s, token.value))

\* the result of a call handed to its caller, with the trace entry
execute_FnCall_result(popped, ctx, res) ==
    [s |-> Log(popped, [k |-> "call_end", ctx |-> ctx, res |-> res]), res |-> res]

\* Token::FnCall after the body ran with outcome r (lines 249-260): pop the
\* frame and the call stack, rebuild the cache; a Return goes up as it is
execute_FnCall_exit(r, ctx) ==
    execute_FnCall_result(
        read_unlock(rebuild_lookup_cache(call_stack_pop(scope_pop(Leave(r.s))))),
        ctx, IF r.out = "ret" THEN r.v ELSE Fallthrough)

\* Token::FnCall in the new frame s1 (lines 231-256)
execute_FnCall_body(s1, fn_token, token, snap) ==
    execute_FnCall_exit(
        run_body(bind_args(Log(s1, [k |-> "call", ctx |-> s1.nest, fn |-> fn_token,
                                    name |-> token.name,
                                    args |-> token.args, snap |-> snap]),
                           fn_token.args, token.args, 0, 0),
                 fn_token.body, 1, "Function"),
        s1.nest)

\* Token::FnCall once the name is looked up (lines 216-230); the read guard
\* of fn_var.read() (line 225) is held to the end of the `if let`
execute_FnCall_lookup(l, token, snap) ==
    IF l.cell = 0 \/ l.s.heap[l.cell].t # "Function"
    THEN [s |-> l.s, res |-> Fallthrough]
    ELSE execute_FnCall_body(
           Enter(scope_create(call_stack_push(read_lock(l.s, l.cell), "Function")),
                 "Function"),
           l.s.heap[l.cell], token, snap)

\* the names of the native functions (token/runtime/mod.rs:17-32 collects
\* the lists of all native modules; the model has those of thread.rs:12 and
\* array#push of array.rs:14-26)
FUNCTIONS == {"thread#launch", "thread#join", "array#push"}

\* any order of the elements of a set (the iteration order of a HashMap)
RECURSIVE SetToSeq(_)
SetToSeq_from(x, S) == <<x>> \o SetToSeq(S \ {x})
SetToSeq(S) == IF S = {} THEN <<>> ELSE SetToSeq_from(CHOOSE x \in S : TRUE, S)

\* thread.rs:30-33: the values of the arguments from index i on; unwrap
\* panics on None
RECURSIVE extract_args(_, _, _, _)
extract_args_next(r, args, i, acc) ==
    IF Halted(r.s) \/ ~r.val.some THEN [s |-> Panic(r.s), vals |-> acc]
    ELSE extract_args(r.s, args, i + 1, Append(acc, r.val.v))
extract_args(s, args, i, acc) ==
    IF Halted(s) \/ i > Len(args) THEN [s |-> s, vals |-> acc]
    ELSE extract_args_next(extract_value(s, args[i]), args, i, acc)

\* thread.rs:38-55: one Let per name of the aggregate, its value the Arc of
\* the cell itself
var_tokens(map, names) ==
    [i \in 1..Len(names) |-> LetToken(names[i], CellExpr(map[names[i]]))]

\* thread.rs:57-88: the statements of the spawned runtime and Runtime::new
spawned_runtime(map, function, args) ==
    [tokens |-> var_tokens(map, SetToSeq(DOMAIN map))
                  \o <<LetToken("main", Value(function)),
                        FnCallToken("main", [i \in 1..Len(args) |-> Value(args[i])])>>,
     pc |-> 1,
     scopes |-> <<EmptyMap>>,
     call_stack |-> <<>>,
     lookup_cache |-> EmptyMap,
     modified_vars |-> {},
     log |-> <<>>,
     nest |-> <<>>,
     halt |-> "ok",
     memory |-> "JoinHandle"]

\* thread.rs:35-95 on the aggregate a: the thread is spawned and its handle
\* returned
thread_launch_spawn(a, function, args) ==
    [s |-> Log([a.s EXCEPT !.threads = Append(@, spawned_runtime(a.map, function, args))],
               [k |-> "launch", ctx |-> a.s.nest, thread |-> Len(a.s.threads) + 1,
                map |-> a.map]),
     res |-> Some(Value(NativeMemoryToken("Thread", Len(a.s.threads) + 1)))]

\* thread#launch once the arguments r are extracted (thread.rs:35 calls
\* scope_aggregate without an argument; the aggregate is taken fresh)
thread_launch_args(r, function) ==
    IF Halted(r.s) THEN [s |-> r.s, res |-> None]
    ELSE thread_launch_spawn(scope_aggregate(r.s, TRUE), function, r.vals)

\* thread#launch once its first argument f is extracted (thread.rs:26-33, 97-99)
thread_launch_function(f, args) ==
    IF Halted(f.s) \/ ~f.val.some THEN [s |-> f.s, res |-> None]
    ELSE IF f.val.v.t # "Function" THEN [s |-> Panic(f.s), res |-> None]
    ELSE thread_launch_args(extract_args(f.s, args, 2, <<>>), f.val.v)

\* "thread#launch" (thread.rs:21-101)
thread_launch(s, args) ==
    IF Len(args) = 0 THEN [s |-> Panic(s), res |-> None]
    ELSE thread_launch_function(extract_value(s, args[1]), args)

\* a join that returns without waiting for the thread to finish
thread_join_thread_nowait(s1, k, child) ==
    IF child.memory # "JoinHandle" THEN [s |-> Panic(s1), res |-> None]
    ELSE [s |-> Log(s1, [k |-> "join", ctx |-> s1.nest, thread |-> k]),
          res |-> Fallthrough]

\* thread.rs:116-123 with the box taken out of the handle: the downcast
\* panics when the box holds no JoinHandle; JoinHandle::join returns when
\* the thread has finished, and its unwrap panics when the thread panicked
thread_join_thread(s1, k, child) ==
    IF child.memory # "JoinHandle" THEN [s |-> Panic(s1), res |-> None]
    ELSE IF child.halt = "panic" THEN [s |-> Panic(s1), res |-> None]
    ELSE IF child.halt = "ok" /\ child.pc > Len(child.tokens)
    THEN [s |-> Log(s1, [k |-> "join", ctx |-> s1.nest, thread |-> k]),
          res |-> Fallthrough]
    ELSE [s |-> [s1 EXCEPT !.halt = "blocked"], res |-> None]

\* thread#join once its argument r is extracted (thread.rs:107-126): the box
\* of the handle is replaced by Box::new(())
thread_join_handle(r) ==
    IF Halted(r.s) THEN [s |-> r.s, res |-> None]
    ELSE IF ~r.val.some \/ r.val.v.t # "NativeMemory"
    THEN [s |-> Panic(r.s), res |-> None]
    ELSE thread_join_thread([r.s EXCEPT !.threads[r.val.v.memory].memory = "()"],
                            r.val.v.memory, r.s.threads[r.val.v.memory])

\* "thread#join" (thread.rs:102-127)
thread_join(s, args) ==
    IF Len(args) # 1 THEN [s |-> Panic(s), res |-> None]
    ELSE thread_join_handle(extract_value(s, args[1]))

\* array.rs:43-52: the arguments from index i on are extracted and pushed one
\* by one into the Vec behind the Arc (the heap slot holds it as
\* [t |-> "Vec", elems |-> ..]); an argument without a value ends the call
\* with no value, what was pushed before stays; the result is a clone of the
\* array
RECURSIVE array_push_args(_, _, _, _)
array_push_next(r, array, args, i) ==
    IF Halted(r.s) \/ ~r.val.some THEN [s |-> r.s, res |-> None]
    ELSE array_push_args(
             Log([r.s EXCEPT !.heap[array.arc].elems = Append(@, r.val.v)],
                 [k |-> "push", ctx |-> r.s.nest, arc |-> array.arc, val |-> r.val.v]),
             array, args, i + 1)
array_push_args(s, array, args, i) ==
    IF Halted(s) THEN [s |-> s, res |-> None]
    ELSE IF i > Len(args) THEN [s |-> s, res |-> Some(Value(value_clone(s, array)))]
    ELSE array_push_next(extract_value(s, args[i]), array, args, i)

\* array#push once its first argument r is extracted (array.rs:40-57)
array_push_array(r, args) ==
    IF Halted(r.s) \/ ~r.val.some THEN [s |-> r.s, res |-> None]
    ELSE IF r.val.v.t # "Array" THEN [s |-> Panic(r.s), res |-> None]
    ELSE array_push_args(r.s, r.val.v, args, 2)

\* "array#push" (array.rs:35-58)
array_push(s, args) ==
    IF Len(args) < 2 THEN [s |-> Panic(s), res |-> None]
    ELSE array_push_array(extract_value(s, args[1]), args)

\* token::runtime::run (token/runtime/mod.rs:34-63): the native bridge
runtime_run(s, token) ==
    CASE token.name = "thread#launch" -> thread_launch(s, token.args)
      [] token.name = "thread#join" -> thread_join(s, token.args)
      [] token.name = "array#push" -> array_push(s, token.args)

\* a call that asks the native set only when no user function has the name
execute_FnCall_user_first(s, token) ==
    IF token.name \in FUNCTIONS
         /\ (lookup_variable(s, token.name).cell = 0
               \/ s.heap[lookup_variable(s, token.name).cell].t # "Function")
    THEN runtime_run(s, token)
    ELSE execute_FnCall_lookup(lookup_variable(s, token.name), token, Snap(s))

\* Token::FnCall (lines 203-263): a native name goes to the native bridge
\* before any lookup
execute_FnCall(s, token) ==
    IF token.name \in FUNCTIONS THEN runtime_run(s, token)
    ELSE execute_FnCall_lookup(lookup_variable(s, token.name), token, Snap(s))

\* a method call after the body ran with outcome r (lines 306-320, 379-393):
\* pop ONE frame and the call stack, rebuild the cache; the frame of the
\* class body or of the instance's fields stays on the stack
execute_method_exit(r, ctx) ==
    [s |-> Log(read_unlock(rebuild_lookup_cache(call_stack_pop(scope_pop(Leave(r.s))))),
               [k |-> "method_end", ctx |-> ctx,
                res |-> IF r.out = "ret" THEN r.v ELSE Fallthrough]),
     res |-> IF r.out = "ret" THEN r.v ELSE Fallthrough]

\* the trace entry of a method call entered in state s1
method_entered(s1, ctx, fn_token, receiver, args, shift, snap) ==
    Log(s1, [k |-> "method", ctx |-> ctx, inner |-> s1.nest, fn |-> fn_token,
             receiver |-> receiver, args |-> args, shift |-> shift, snap |-> snap])

\* Token::StaticClassFnCall once the method name is looked up in the frame of
\* the class body (lines 277-320)
execute_StaticClassFnCall_method(l, token, ctx, snap) ==
    IF Halted(l.s) THEN [s |-> l.s, res |-> None]
    ELSE IF l.cell = 0 \/ l.s.heap[l.cell].t # "Function"
    THEN [s |-> l.s, res |-> Fallthrough]
    ELSE execute_method_exit(
           run_body(bind_args(method_entered(
                                  Enter(scope_create(call_stack_push(
                                            read_lock(l.s, l.cell), "Function")),
                                        "Function"),
                                  ctx, l.s.heap[l.cell], token.class, token.args, 0, snap),
                              l.s.heap[l.cell].args, token.args, 0, 0),
                    l.s.heap[l.cell].body, 1, "Function"),
           ctx)

\* Token::StaticClassFnCall once the class name is looked up (lines 267-276):
\* the class body runs in a new frame, its results are ignored; the read
\* guard of class.read() (line 269) is held to the end of the arm
execute_StaticClassFnCall_class(l, token, ctx, snap) ==
    IF l.cell = 0 \/ l.s.heap[l.cell].t # "Class"
    THEN [s |-> l.s, res |-> Fallthrough]
    ELSE read_unlock_result(
           execute_StaticClassFnCall_method(
             lookup_variable(
               Leave(run_body(Enter(scope_create(read_lock(l.s, l.cell)), "Class"),
                              l.s.heap[l.cell].body, 1, "Class").s),
               token.name),
             token, ctx, snap))

execute_StaticClassFnCall(s, token) ==
    execute_StaticClassFnCall_class(lookup_variable(s, token.class), token, s.nest, Snap(s))

\* an instance call that matches the parameters against the arguments from
\* index 0 on
execute_ClassFnCall_method_unshifted(l, instance, token, ctx, snap) ==
    IF l.cell = 0 \/ l.s.heap[l.cell].t # "Function"
    THEN [s |-> l.s, res |-> Fallthrough]
    ELSE execute_method_exit(
           run_body(scope_set_new(
                        bind_args(method_entered(
                                      Enter(scope_create(call_stack_push(
                                                read_lock(l.s, l.cell), "Function")),
                                            "Function"),
                                      ctx, l.s.heap[l.cell], token.instance, token.args,
                                      1, snap),
                                  l.s.heap[l.cell].args, token.args, 0, 0),
                        "self", instance),
                    l.s.heap[l.cell].body, 1, "Function"),
           ctx)

\* Token::ClassFnCall once the method name is looked up (lines 339-393):
\* parameter 0 is skipped, parameter index takes argument index - 1, and
\* self is bound to a copy of the instance value
execute_ClassFnCall_method(l, instance, token, ctx, snap) ==
    IF l.cell = 0 \/ l.s.heap[l.cell].t # "Function"
    THEN [s |-> l.s, res |-> Fallthrough]
    ELSE execute_method_exit(
           run_body(scope_set_new(
                        bind_args(method_entered(
                                      Enter(scope_create(call_stack_push(
                                                read_lock(l.s, l.cell), "Function")),
                                            "Function"),
                                      ctx, l.s.heap[l.cell], token.instance, token.args,
                                      1, snap),
                                  l.s.heap[l.cell].args, token.args, 1, 1),
                        "self", instance),
                    l.s.heap[l.cell].body, 1, "Function"),
           ctx)

\* lines 332-336: scope_create, then the innermost frame is extended with the
\* instance's field map (the cells themselves); neither the cache nor the
\* dirty set is touched
extend_instance_frame(s, instance) ==
    [scope_create(s) EXCEPT !.scopes = Append(s.scopes, instance.scope)]

\* Token::ClassFnCall once the instance name is looked up (lines 326-338); the
\* read guard of instance.read() (line 330) is held to the end of the arm
execute_ClassFnCall_instance(l, token, ctx, snap) ==
    IF l.cell = 0 \/ l.s.heap[l.cell].t # "ClassInstance"
    THEN [s |-> l.s, res |-> Fallthrough]
    ELSE read_unlock_result(
           execute_ClassFnCall_method(
             lookup_variable(extend_instance_frame(read_lock(l.s, l.cell), l.s.heap[l.cell]),
                             token.name),
             l.s.heap[l.cell], token, ctx, snap))

execute_ClassFnCall(s, token) ==
    execute_ClassFnCall_instance(lookup_variable(s, token.instance), token, s.nest, Snap(s))

\* an assignment that binds the name in the innermost frame instead of
\* writing the cell the name resolves to
execute_LetAssign_write_rebinding(l, name, val, ctx) ==
    IF l.cell = 0 THEN [s |-> l.s, res |-> Fallthrough]
    ELSE [s |-> Log(scope_set_new(l.s, name, val),
                    [k |-> "assign", ctx |-> ctx, name |-> name,
                     cell |-> NewCell(l.s), val |-> val]),
          res |-> Fallthrough]

\* Token::LetAssign once the name is looked up (lines 401-408): write the
\* cell and mark the name dirty
execute_LetAssign_write(l, name, val, ctx) ==
    IF l.cell = 0 THEN [s |-> l.s, res |-> Fallthrough]
    ELSE [s |-> Log([cell_write(l.s, l.cell, val)
                        EXCEPT !.modified_vars = @ \cup {name}],
                    [k |-> "assign", ctx |-> ctx, name |-> name,
                     cell |-> l.cell, val |-> val]),
          res |-> Fallthrough]

\* Token::LetAssign once the value r is extracted
execute_LetAssign_value(r, token, ctx) ==
    IF Halted(r.s) THEN [s |-> r.s, res |-> None]
    ELSE IF ~r.val.some THEN [s |-> Panic(r.s), res |-> None]
    ELSE execute_LetAssign_write(lookup_variable(r.s, token.name), token.name, r.val.v, ctx)

execute_LetAssign(s, token) ==
    execute_LetAssign_value(extract_value(s, token.value), token, s.nest)

\* number_token.value /= value_token.value on f64: the quotient when it is a
\* whole number, otherwise the ratio as it stands (a zero divisor gives an
\* infinity or NaN)
Quotient(n, v) ==
    IF v > 0 /\ n % v = 0 THEN NumberToken(n \div v)
    ELSE [t |-> "Number", num |-> n, den |-> v]

\* the match on assign_token.operation (lines 420-433)
NumApplied(op, n, v) ==
    IF op = "Div" THEN Quotient(n, v) ELSE NumberToken(ApplyNum(op, n, v))

\* a compound assignment that overwrites the cell with the operand whatever
\* the cell holds
AssignNum_overwriting(op, old, v) == v

\* the value LetAssignNum leaves in the cell (lines 417-437): a Number cell
\* takes the operation with a Number operand and stays as it is with any
\* other operand; any other cell takes the operand
AssignNum(op, old, v) ==
    IF old.t = "Number"
    THEN IF v.t = "Number" THEN NumApplied(op, old.value, v.value) ELSE old
    ELSE v

\* Token::LetAssignNum once the name is looked up
execute_LetAssignNum_write(l, token, v, ctx) ==
    IF l.cell = 0 THEN [s |-> l.s, res |-> Fallthrough]
    ELSE [s |-> Log([cell_write(l.s, l.cell, AssignNum(token.operation, l.s.heap[l.cell], v))
                        EXCEPT !.modified_vars = @ \cup {token.name}],
                    [k |-> "assign", ctx |-> ctx, name |-> token.name, cell |-> l.cell,
                     val |-> AssignNum(token.operation, l.s.heap[l.cell], v)]),
          res |-> Fallthrough]

\* Token::LetAssignNum once the value r is extracted
execute_LetAssignNum_value(r, token, ctx) ==
    IF Halted(r.s) THEN [s |-> r.s, res |-> None]
    ELSE IF ~r.val.some THEN [s |-> Panic(r.s), res |-> None]
    ELSE execute_LetAssignNum_write(lookup_variable(r.s, token.name), token, r.val.v, ctx)

execute_LetAssignNum(s, token) ==
    execute_LetAssignNum_value(extract_value(s, token.value), token, s.nest)

\* Runtime::execute
execute(s, token) ==
    IF Halted(s) THEN [s |-> s, res |-> None]
    ELSE CASE token.t = "Let" -> execute_Let(s, token)
           [] token.t = "Loop" -> execute_Loop(s, token)
           [] token.t = "If" -> execute_If(s, token)
           [] token.t = "Break" -> execute_Break(s, token)
           [] token.t = "Return" -> execute_Return(s, token)
           [] token.t = "FnCall" -> execute_FnCall(s, token)
           [] token.t = "StaticClassFnCall" -> execute_StaticClassFnCall(s, token)
           [] token.t = "ClassFnCall" -> execute_ClassFnCall(s, token)
           [] token.t = "LetAssign" -> execute_LetAssign(s, token)
           [] token.t = "LetAssignNum" -> execute_LetAssignNum(s, token)

\* Comparison once both sides are extracted
extract_Comparison_result(lv, r, op) ==
    IF Halted(r.s) \/ ~r.val.some THEN [s |-> Panic(r.s), val |-> None]
    ELSE [s |-> r.s, val |-> Some(BooleanToken(Compare(op, lv, r.val.v)))]

\* Comparison once the left side l is extracted
extract_Comparison_left(l, token) ==
    IF Halted(l.s) \/ ~l.val.some THEN [s |-> Panic(l.s), val |-> None]
    ELSE extract_Comparison_result(l.val.v, extract_value(l.s, token.right), token.operator)

extract_Comparison(s, token) ==
    extract_Comparison_left(extract_value(s, token.left), token)

\* a variable reference once the name is looked up (lines 536-544)
extract_Let_lookup(l, name, ctx) ==
    IF l.cell = 0
    THEN [s |-> Log(l.s, [k |-> "read", ctx |-> ctx, name |-> name,
                          cell |-> 0, val |-> NullToken]),
          val |-> None]
    ELSE [s |-> Log(l.s, [k |-> "read", ctx |-> ctx, name |-> name,
                          cell |-> l.cell, val |-> l.s.heap[l.cell]]),
          val |-> Some(value_clone(l.s, l.s.heap[l.cell]))]

extract_Let(s, token) == extract_Let_lookup(lookup_variable(s, token.name), token.name, s.nest)

\* the meval context (lines 547-559): the Number variables of the aggregate a
NumericContext(a) ==
    [n \in {m \in DOMAIN a.map : a.s.heap[a.map[m]].t = "Number"} |->
        a.s.heap[a.map[n]].value]

\* the evaluated formula as a value (lines 561-569), None on an error
extract_Math_result(s, result) ==
    IF result.some THEN [s |-> s, val |-> Some(NumberToken(result.v))]
    ELSE [s |-> s, val |-> None]

extract_Math_context(a, token) ==
    extract_Math_result(a.s, EvalMath(token.terms, NumericContext(a)))

extract_Math(s, token) == extract_Math_context(scope_aggregate(s, FALSE), token)

\* the value of a call in expression position, with the trace entry
extract_FnCall_value(v, name, ctx) ==
    [s |-> Log(v.s, [k |-> "expr_call_end", ctx |-> ctx, name |-> name, val |-> v.val]),
     val |-> v.val]

\* lines 572-579: the result r of the call with unwrap_or(Null), extracted
extract_FnCall_result(r, name, ctx) ==
    extract_FnCall_value(
        extract_value(r.s, IF r.res.some THEN r.res.v ELSE Value(NullToken)), name, ctx)

extract_FnCall(s, token) ==
    extract_FnCall_result(execute(s, FnCallToken(token.name, token.args)), token.name, s.nest)

\* the value of a method call in expression position, with the trace entry
extract_method_value(v, token, ctx) ==
    [s |-> Log(v.s, [k |-> "expr_method_end", ctx |-> ctx, name |-> token.name,
                     e |-> token.e,
                     receiver |-> IF token.e = "ClassFnCall" THEN token.instance
                                  ELSE token.class,
                     val |-> v.val, snap |-> Snap(v.s)]),
     val |-> v.val]

\* lines 621-640: the result r of the method call with unwrap_or(Null), extracted
extract_method_result(r, token, ctx) ==
    extract_method_value(
        extract_value(r.s, IF r.res.some THEN r.res.v ELSE Value(NullToken)), token, ctx)

extract_StaticClassFnCall(s, token) ==
    extract_method_result(
        execute(s, StaticClassFnCallToken(token.name, token.class, token.args)), token, s.nest)

extract_ClassFnCall(s, token) ==
    extract_method_result(
        execute(s, ClassFnCallToken(token.name, token.instance, token.args)), token, s.nest)

\* lines 606-612: the frame of the class body becomes the instance's scope
\* and is popped; the cache is not rebuilt
extract_ClassInstantiation_exit(r, class_token) ==
    [s |-> Log(scope_pop(Leave(r.s)),
               [k |-> "instantiated", ctx |-> Leave(r.s).nest,
                val |-> ClassInstanceToken(class_token, r.s.scopes[Len(r.s.scopes)]),
                snap |-> Snap(scope_pop(Leave(r.s)))]),
     val |-> Some(ClassInstanceToken(class_token, r.s.scopes[Len(r.s.scopes)]))]

\* the trace entry of an instantiation entered in state s1 from state s
instantiation_entered(s1, s, class_token, args) ==
    Log(s1, [k |-> "instantiate", ctx |-> s.nest, inner |-> s1.nest,
             class |-> class_token, args |-> args, snap |-> Snap(s)])

\* lines 582-605 on the aggregate a; the read guard of try_read (line 584) is
\* held until the instance is returned
extract_ClassInstantiation_class(a, token) ==
    IF token.class \in DOMAIN a.map /\ a.s.heap[a.map[token.class]].t = "Class"
    THEN read_unlock_value(
           extract_ClassInstantiation_exit(
             run_body(bind_class_args(
                          instantiation_entered(
                              Enter(scope_create(read_lock(a.s, a.map[token.class])),
                                    "Class"),
                              a.s, a.s.heap[a.map[token.class]], token.args),
                          a.s.heap[a.map[token.class]].args, token.args, 1),
                      a.s.heap[a.map[token.class]].body, 1, "Class"),
             a.s.heap[a.map[token.class]]))
    ELSE [s |-> a.s, val |-> None]

extract_ClassInstantiation(s, token) ==
    extract_ClassInstantiation_class(scope_aggregate(s, FALSE), token)

\* Runtime::extract_value
extract_value(s, token) ==
    IF Halted(s) THEN [s |-> s, val |-> None]
    ELSE CASE token.e = "Comparison" -> extract_Comparison(s, token)
           [] token.e = "Value" -> [s |-> s, val |-> Some(value_clone(s, token.value))]
           [] token.e = "Let" -> extract_Let(s, token)
           [] token.e = "Math" -> extract_Math(s, token)
           [] token.e = "FnCall" -> extract_FnCall(s, token)
           [] token.e = "ClassInstantiation" -> extract_ClassInstantiation(s, token)
           [] token.e = "StaticClassFnCall" -> extract_StaticClassFnCall(s, token)
           [] token.e = "ClassFnCall" -> extract_ClassFnCall(s, token)
           [] token.e = "Return" -> extract_value(s, token.value)

(***************************************************************************)
(* Programs: the statement trees handed to Runtime::new                    *)
(***************************************************************************)
Vals == 0..MaxVal
Num(n) == Value(NumberToken(n))
Str(str) == Value(StringToken(str))
True == Value(BooleanToken(TRUE))
Var(name) == VariableRef(name)
Call(name, args) == FnCallToken(name, args)
\* the statement `m = 1`, a mark that shows that execution got there
Mark(name) == LetAssignToken(name, Num(1))

\* closure sharing: two functions over the free variable x, then any
\* interleaving of three calls
SetX == FnDecl("set", <<"v">>, <<LetAssignToken("x", Var("v"))>>)
GetX == FnDecl("get", <<>>, <<ReturnToken(Var("x"))>>)
ClosureCalls ==
    {Call("set", <<Num(v)>>) : v \in Vals \ {0}}
        \cup {LetAssignToken("y", FnCallExpr("get", <<>>))}
ClosurePrograms ==
    {<<LetToken("x", Num(0)), LetToken("y", Value(NullToken)), SetX, GetX, c1, c2, c3>> :
        c1 \in ClosureCalls, c2 \in ClosureCalls, c3 \in ClosureCalls}

\* a callee that returns a value, or does not return, called in statement
\* position inside a function body, an if body and a loop body
Callees ==
    {FnDecl("g", <<>>, <<ReturnToken(Num(v))>>) : v \in Vals}
        \cup {FnDecl("g", <<>>, <<Mark("n")>>)}
CallerBodies ==
    {<<Call("g", <<>>), Mark("m")>>, <<Call("g", <<>>)>>, <<Mark("m"), Call("g", <<>>)>>}
StmtCallPrograms ==
    LET pre(g) == <<LetToken("m", Num(0)), LetToken("n", Num(0)), g>>
    IN UNION {
         {pre(g) \o <<FnDecl("f", <<>>, b \o <<ReturnToken(Num(MaxVal))>>),
                      LetToken("r", FnCallExpr("f", <<>>))>>,
          pre(g) \o <<FnDecl("f", <<>>, b), LetToken("r", FnCallExpr("f", <<>>))>>,
          pre(g) \o <<FnDecl("f", <<>>, <<IfToken(FALSE, True, b), Mark("n")>>),
                      LetToken("r", FnCallExpr("f", <<>>))>>,
          pre(g) \o <<IfToken(FALSE, True, b), Mark("n")>>,
          pre(g) \o <<LoopToken(b \o <<BreakToken>>), Mark("n")>>}
         : g \in Callees, b \in CallerBodies}

\* return inside a loop body of a function, directly or inside a taken if
LoopReturnPrograms ==
    UNION {
      {<<LetToken("m", Num(0)),
         FnDecl("f", <<>>, <<LoopToken(<<ret, Mark("m"), BreakToken>>), ReturnToken(Num(w))>>),
         LetToken("r", FnCallExpr("f", <<>>))>>,
       <<LetToken("m", Num(0)),
         FnDecl("f", <<>>, <<LoopToken(<<ret, Mark("m"), BreakToken>>)>>),
         LetToken("r", FnCallExpr("f", <<>>))>>}
      : ret \in {ReturnToken(Num(v)) : v \in Vals}
                  \cup {IfToken(FALSE, True, <<ReturnToken(Num(v))>>) : v \in Vals},
        w \in Vals}

\* break: directly in a loop, inside a taken if, inside a function called
\* from the loop body, and in a function called with no loop around
BreakPrograms ==
    LET pre == <<LetToken("m", Num(0)), LetToken("n", Num(0)),
                 FnDecl("b", <<>>, <<BreakToken, Mark("n")>>)>>
    IN {pre \o <<LoopToken(<<BreakToken, Mark("m")>>), Mark("n")>>,
        pre \o <<LoopToken(<<IfToken(FALSE, True, <<BreakToken, Mark("m")>>), Mark("m")>>)>>,
        pre \o <<LoopToken(<<IfToken(TRUE, True, <<BreakToken>>), Mark("m"), BreakToken>>)>>,
        pre \o <<LoopToken(<<Call("b", <<>>), Mark("m"), BreakToken>>)>>,
        pre \o <<Call("b", <<>>), Mark("m")>>,
        pre \o <<FnDecl("f", <<>>, <<LoopToken(<<BreakToken, Mark("m")>>), Mark("n")>>),
                 Call("f", <<>>)>>}

\* the counting loop: break when x equals N, otherwise increment x
CounterLoop(N) ==
    LoopToken(<<IfToken(FALSE, Comparison("==", Var("x"), Num(N)), <<BreakToken>>),
                LetAssignNumToken("x", "Add", Num(1))>>)
CounterPrograms ==
    {<<LetToken("x", Num(0)), CounterLoop(N), LetToken("y", Var("x"))>> : N \in 0..MaxN}
        \cup {<<LetToken("x", Num(0)), FnDecl("f", <<>>, <<CounterLoop(N), ReturnToken(Var("x"))>>),
                LetToken("y", FnCallExpr("f", <<>>))>> : N \in 0..MaxN}

\* functions called with fewer, as many and no arguments
Add == FnDecl("add", <<"a", "b">>, <<ReturnToken(Math(<<MVar("a"), MVar("b")>>))>>)
Probe2 == FnDecl("p", <<"a", "b">>,
                 <<LetAssignToken("y", Var("a")), LetAssignToken("z", Var("b"))>>)
Probe3 == FnDecl("p", <<"a", "b", "c">>,
                 <<LetAssignToken("y", Var("a")), LetAssignToken("z", Var("b")),
                   LetAssignToken("w", Var("c"))>>)
ArgExprs == {Num(v) : v \in Vals} \cup {Var("x")}
ArgLists(n) == UNION {[1..k -> ArgExprs] : k \in 0..n}
ReturnIf == FnDecl("h", <<"a">>,
                   <<IfToken(FALSE, Comparison("==", Var("a"), Num(1)), <<ReturnToken(Num(MaxVal))>>),
                     Mark("m")>>)
CallPrograms ==
    LET pre == <<LetToken("x", Str("outer x")), LetToken("a", Str("outer a")),
                 LetToken("b", Str("outer b")), LetToken("y", Str("unset")),
                 LetToken("z", Str("unset")), LetToken("w", Str("unset"))>>
    IN {pre \o <<Probe2, Call("p", args)>> : args \in ArgLists(2)}
         \cup {pre \o <<Probe3, Call("p", args)>> : args \in ArgLists(2)}
         \cup {<<Add, LetToken("r", FnCallExpr("add", <<Num(v), Num(w)>>))>> :
                 v \in 0..(MaxVal + 1), w \in 0..(MaxVal + 1)}
         \cup {<<Add, LetToken("r", FnCallExpr("add", <<Num(v)>>))>> : v \in Vals}
         \cup {<<LetToken("m", Num(0)), ReturnIf, LetToken("r", FnCallExpr("h", <<Num(v)>>))>> :
                 v \in Vals}

\* shadowing and redeclaration: an inner let x in an if body, a loop body
\* and a function body while the bottom frame binds x
InnerBodies ==
    UNION {
      {<<LetToken("x", Num(v)), LetAssignToken("y", Var("x"))>>,
       <<LetToken("x", Num(v)), LetAssignToken("x", Num(MaxVal - v)), LetAssignToken("y", Var("x"))>>,
       <<LetToken("x", Num(v)), LetToken("x", Num(MaxVal - v)), LetAssignToken("y", Var("x"))>>,
       <<LetToken("x", Num(v)), IfToken(FALSE, True, <<LetAssignToken("y", Var("x"))>>)>>}
      : v \in Vals}
ShadowPrograms ==
    UNION {
      {<<LetToken("x", Str("outer")), LetToken("y", Value(NullToken)),
         IfToken(FALSE, True, b), LetToken("z", Var("x"))>>,
       <<LetToken("x", Str("outer")), LetToken("y", Value(NullToken)),
         LoopToken(b \o <<BreakToken>>), LetToken("z", Var("x"))>>,
       <<LetToken("x", Str("outer")), LetToken("y", Value(NullToken)),
         FnDecl("f", <<>>, b), Call("f", <<>>), LetToken("z", Var("x"))>>}
      : b \in InnerBodies}
RedeclarePrograms ==
    {<<LetToken("x", Num(v)), LetToken("x", Num(w)), LetToken("y", Var("x"))>> :
        v \in Vals, w \in Vals}

\* in-place arithmetic on a Number, on a String and with a String operand
NumAssignPrograms ==
    {<<LetToken("x", Num(v)), LetAssignNumToken("x", op, Num(w)), LetToken("y", Var("x"))>> :
        v \in Vals, w \in Vals, op \in {"Add", "Sub", "Mul"}}
      \cup {<<LetToken("x", Str("s")), LetAssignNumToken("x", "Add", Num(w)),
              LetToken("y", Var("x"))>> : w \in Vals}
      \cup {<<LetToken("x", Num(v)), LetAssignNumToken("x", "Add", Str("s")),
              LetToken("y", Var("x"))>> : v \in Vals}

\* class instantiation: the class body reads its constructor parameter
ClassPrograms ==
    {<<ClassDecl("P", <<"x">>, <<LetToken("w", Var("x"))>>),
       LetToken("p", ClassInstantiation("P", <<Num(v)>>)),
       LetToken("z", Num(w))>> : v \in Vals, w \in Vals}
      \cup
    {<<LetToken("x", Str("outer")),
       ClassDecl("P", <<"x">>, <<LetToken("w", Var("x"))>>),
       LetToken("p", ClassInstantiation("P", <<Num(v)>>)),
       LetToken("z", Var("x"))>> : v \in Vals}

\* two classes, P with a field v, a setter and a getter and Q with the field
\* only; instances a and b of P and c of Q, then up to MaxCalls method calls
\*   class P(v) { fn set(self, n) { self.#.v = n }  fn get(self) { return self.v } }
\*   class Q(v) { }
ClassP ==
    ClassDecl("P", <<"v">>,
        <<FnDecl("set", <<"self", "n">>, <<LetAssignToken("v", Var("n"))>>),
          FnDecl("get", <<"self">>, <<ReturnToken(Var("v"))>>)>>)
ClassQ == ClassDecl("Q", <<"v">>, <<>>)
Instances ==
    <<ClassP, ClassQ,
      LetToken("a", ClassInstantiation("P", <<Num(1)>>)),
      LetToken("b", ClassInstantiation("P", <<Num(2)>>)),
      LetToken("c", ClassInstantiation("Q", <<Num(3)>>))>>
Result(i) == IF i = 1 THEN "r1" ELSE IF i = 2 THEN "r2" ELSE "r3"
MethodCalls(i) ==
    {ClassFnCallToken("set", o, <<Num(MaxVal + 3)>>) : o \in {"a", "b", "c"}}
      \cup {LetToken(Result(i), ClassFnCallExpr("get", o, <<>>)) : o \in {"a", "b", "c"}}
      \cup {StaticClassFnCallToken("get", "Q", <<>>),
            LetToken(Result(i), StaticClassFnCallExpr("get", "P", <<>>))}
MethodPrograms ==
    {Instances \o calls :
        calls \in UNION {{q \in [1..k -> UNION {MethodCalls(i) : i \in 1..MaxCalls}] :
                              \A i \in 1..k : q[i] \in MethodCalls(i)} : k \in 1..MaxCalls}}

\* a function that reads, and one that assigns, a variable declared in the
\* body of their caller only
\*   fn f() { return self.x }   fn w() { self.#.x = 9 }
\*   fn g() { let x = 5 ; w() ; return f() }   let r = g()
ReadX == FnDecl("f", <<>>, <<ReturnToken(Var("x"))>>)
WriteX == FnDecl("w", <<>>, <<LetAssignToken("x", Num(MaxVal + 1))>>)
CallerLocalPrograms ==
    {<<ReadX, WriteX, FnDecl("g", <<>>, <<LetToken("x", Num(v))>> \o body),
       LetToken("r", FnCallExpr("g", <<>>))>> :
        v \in Vals,
        body \in {<<ReturnToken(FnCallExpr("f", <<>>))>>,
                  <<Call("w", <<>>), ReturnToken(Var("x"))>>,
                  <<Call("w", <<>>), ReturnToken(FnCallExpr("f", <<>>))>>}}

\* a name that no frame binds (written self.y), evaluated as the right-hand
\* side of a let and of an assignment, as an if condition, as a return
\* operand and as a call argument; a statement follows each
Unbound == Var("y")
UnboundPrograms ==
    {<<LetToken("x", Num(v))>> \o use \o <<LetToken("z", Num(v))>> :
        v \in Vals,
        use \in {<<LetToken("r", Unbound)>>,
                 <<LetAssignToken("x", Unbound)>>,
                 <<LetAssignNumToken("x", "Add", Unbound)>>,
                 <<IfToken(FALSE, Unbound, <<Mark("x")>>)>>,
                 <<IfToken(TRUE, Unbound, <<Mark("x")>>)>>,
                 <<FnDecl("f", <<>>, <<ReturnToken(Unbound)>>),
                   LetToken("r", FnCallExpr("f", <<>>))>>,
                 <<FnDecl("p", <<"a">>, <<Mark("x")>>), Call("p", <<Unbound>>)>>,
                 <<Call("q", <<Unbound>>)>>}}

\* the two equalities on a pair of scalar literals
\*   let s = a === b ; let l = a == b
Scalars ==
    {StringToken(str) : str \in {"0", "1", "-0", "true", "null", ""}}
      \cup {NumberToken(n) : n \in Vals} \cup {NegZeroToken}
      \cup {BooleanToken(TRUE), BooleanToken(FALSE), NullToken}
EqualityPrograms ==
    {<<LetToken("s", Comparison("===", Value(a), Value(b))),
       LetToken("l", Comparison("==", Value(a), Value(b)))>> :
        a \in Scalars, b \in Scalars}

\* a thread that assigns an inherited variable, the parent reading or
\* assigning it meanwhile, then the join and what follows it
\*   fn t() { self.#.x = 3 } ; let x = 0 ; let h = thread#launch(t) ; ..
\*   thread#join(h) ; let r = x
Worker == FnDecl("t", <<>>, <<LetAssignToken("x", Num(MaxVal + 1))>>)
Launch(h, f) == LetToken(h, FnCallExpr("thread#launch", <<Var(f)>>))
Join(h) == Call("thread#join", <<Var(h)>>)
ThreadPrograms ==
    {<<Worker, LetToken("x", Num(v)), Launch("h", "t")>> \o mid \o <<Join("h")>> \o tail :
        v \in Vals,
        mid \in {<<>>, <<LetAssignToken("x", Num(MaxVal + 2))>>, <<LetToken("y", Var("x"))>>},
        tail \in {<<LetToken("r", Var("x"))>>, <<Join("h"), LetToken("r", Var("x"))>>}}
      \cup
    {<<Worker, LetToken("x", Num(v)), Join(o), LetToken("r", Var("x"))>> :
        v \in Vals, o \in {"x", "t"}}

\* user functions declared under the names of the natives
\*   fn thread#launch(f) { self.#.x = 1 ; return 7 }   fn thread#join(h) { self.#.x = 1 }
ShadowLaunch ==
    FnDecl("thread#launch", <<"f">>, <<Mark("x"), ReturnToken(Num(MaxVal + 2))>>)
ShadowJoin == FnDecl("thread#join", <<"h">>, <<Mark("x")>>)
NativeNamePrograms ==
    {<<LetToken("x", Num(v)), FnDecl("t", <<>>, <<>>)>> \o shadow
        \o <<Launch("h", "t"), Join("h"), LetToken("r", Var("x"))>> :
        v \in Vals,
        shadow \in {<<ShadowLaunch>>, <<ShadowJoin>>, <<ShadowLaunch, ShadowJoin>>}}

\* a function, a method called on an instance and a method called on the
\* class, whose body assigns the variable named target
\*   let g = 0 ; fn f() { self.#.<target> = 1 }
\*   class R() { fn m(self) { self.#.<target> = 1 } } ; let a = new R()
\*   f()  or  a.m()  or  R::m() ;  let after = 1
AssignIn(name, params, target) ==
    FnDecl(name, params, <<LetAssignToken(target, Num(1))>>)
SelfAssignPrograms ==
    {<<LetToken("g", Num(0)),
       AssignIn("f", <<>>, target),
       ClassDecl("R", <<>>, <<AssignIn("m", <<"self">>, target)>>),
       LetToken("a", ClassInstantiation("R", <<>>)),
       call,
       LetToken("after", Num(1))>> :
        target \in {"g", "f", "m", "a", "R"},
        call \in {Call("f", <<>>), ClassFnCallToken("m", "a", <<>>),
                  StaticClassFnCallToken("m", "R", <<>>)}}

\* an arithmetic formula over two outer variables in the body of a loop that
\* makes N passes before it breaks, after a statement that looks one name up
\*   let x = 1 ; let y = 2 ; let n = 0
\*   loop { if (self.n == N) { break } ; let z = x + y ; self.#.n += 1 }
FormulaLoop(N) ==
    LoopToken(<<IfToken(FALSE, Comparison("==", Var("n"), Num(N)), <<BreakToken>>),
                LetToken("z", Math(<<MVar("x"), MVar("y")>>)),
                LetAssignNumToken("n", "Add", Num(1))>>)
FormulaLoopPrograms ==
    {<<LetToken("x", Num(1)), LetToken("y", Num(2)), LetToken("n", Num(0)),
       FormulaLoop(N), LetToken("after", Var("n"))>> : N \in 0..2}

\* a native call whose argument cannot be evaluated (a name no frame binds,
\* a formula over such a name), in the body of a loop and of a function
\*   let n = 0 ; loop { thread#launch(<arg>) ; self.#.n += 1 ; if (self.n == 2) { break } }
\*   let n = 0 ; fn f() { thread#launch(<arg>) ; self.#.n = 1 } ; f()
\* each followed by  let after = n
NoValueCalls ==
    {FnCallToken("thread#launch", <<arg>>) :
        arg \in {Var("nothing"), Math(<<MVar("nothing"), MNum(1)>>)}}
NoValuePrograms ==
    {<<LetToken("n", Num(0)),
       LoopToken(<<call, LetAssignNumToken("n", "Add", Num(1)),
                   IfToken(FALSE, Comparison("==", Var("n"), Num(2)), <<BreakToken>>)>>),
       LetToken("after", Var("n"))>> : call \in NoValueCalls}
      \cup
    {<<LetToken("n", Num(0)),
       FnDecl("f", <<>>, <<call, LetAssignToken("n", Num(1))>>),
       Call("f", <<>>),
       LetToken("after", Var("n"))>> : call \in NoValueCalls}

\* arguments that name a variable of the caller which the callee declares
\* as a parameter, or which the instance holds as a field
\*   let a = "outer a" ; let b = "outer b" ; let v = "outer v" ; let n = "outer n"
\*   fn p(a, b) { self.#.y = a ; self.#.z = b }          p(b, a)
\*   class P(v) { fn set(self, n) .. fn get(self) .. }    let i = new P(1)
\*                                                         i.set(v) ; let r = i.get()
\*   class S(a, b) { }                                    let s = new S(b, a)
ClassS == ClassDecl("S", <<"a", "b">>, <<>>)
ArgNames == {"a", "b", "v", "n"}
ArgumentPrograms ==
    LET pre == <<LetToken("a", Str("outer a")), LetToken("b", Str("outer b")),
                 LetToken("v", Str("outer v")), LetToken("n", Str("outer n")),
                 LetToken("y", Str("unset")), LetToken("z", Str("unset"))>>
    IN {pre \o <<Probe2, Call("p", <<Var(f), Var(g)>>)>> : f \in ArgNames, g \in ArgNames}
         \cup {pre \o <<ClassP, LetToken("i", ClassInstantiation("P", <<Num(1)>>)),
                        ClassFnCallToken("set", "i", <<Var(f)>>),
                        LetToken("r", ClassFnCallExpr("get", "i", <<>>))>> : f \in ArgNames}
         \cup {pre \o <<ClassS, LetToken("s", ClassInstantiation("S", <<Var(f), Var(g)>>))>> :
                 f \in ArgNames, g \in ArgNames}

\* a parent that binds the name main, to a function or to a number, and
\* launches the worker t with an argument
\*   fn t() { self.#.x = 3 } ; fn main(q) { self.#.x = "parent main" }  or  let main = 5
\*   let x = 0 ; let h = thread#launch(t, 1) ; thread#join(h)
MainPrograms ==
    {<<Worker, main, LetToken("x", Num(0)),
       LetToken("h", FnCallExpr("thread#launch", <<Var("t"), Num(1)>>)),
       Join("h")>> :
        main \in {FnDecl("main", <<"q">>, <<LetAssignToken("x", Str("parent main"))>>),
                  LetToken("main", Num(MaxVal + 3)),
                  LetToken("other", Num(MaxVal + 3))}}

\* a function m of the global frame and a class that declares no m, called
\* through the class and through an instance
\*   let x = 0 ; fn m(self) { self.#.x = 1 ; return 7 } ; class Q(v) { }
\*   let c = new Q(3) ;  Q::m()  or  c.m()  or  let r = Q::m()  or  let r = c.m()
GlobalM == FnDecl("m", <<"self">>, <<Mark("x"), ReturnToken(Num(MaxVal + 5))>>)
OuterMethodPrograms ==
    {<<LetToken("x", Num(0)), GlobalM, ClassQ,
       LetToken("c", ClassInstantiation("Q", <<Num(3)>>)), call>> :
        call \in {StaticClassFnCallToken("m", "Q", <<>>),
                  ClassFnCallToken("m", "c", <<>>),
                  LetToken("r", StaticClassFnCallExpr("m", "Q", <<>>)),
                  LetToken("r", ClassFnCallExpr("m", "c", <<>>))}}

\* one instance held by two variables, assigned and read through either
\*   class P(v) { .. set .. get .. } ; let a = new P(1) ; let a2 = a
\*   then two of:  a.set(5)   a2.set(6)   let r = a.get()   let r = a2.get()
AliasCalls ==
    {ClassFnCallToken("set", "a", <<Num(MaxVal + 3)>>),
     ClassFnCallToken("set", "a2", <<Num(MaxVal + 4)>>),
     LetToken("r", ClassFnCallExpr("get", "a", <<>>)),
     LetToken("r", ClassFnCallExpr("get", "a2", <<>>))}
AliasPrograms ==
    {<<ClassP, LetToken("a", ClassInstantiation("P", <<Num(1)>>)),
       LetToken("a2", Var("a")), first, second>> :
        first \in AliasCalls, second \in AliasCalls}

\* a class with two constructor parameters and a let in its body,
\* instantiated with no, one, two and three arguments
\*   class T(a, b) { let w = 9 } ; let t = new T(..) ; let after = 1
ClassT == ClassDecl("T", <<"a", "b">>, <<LetToken("w", Num(MaxVal + 7))>>)
ArityPrograms ==
    {<<ClassT, LetToken("t", ClassInstantiation("T", args)), LetToken("after", Num(1))>> :
        args \in {<<>>, <<Num(1)>>, <<Num(1), Num(2)>>, <<Num(1), Num(2), Num(0)>>}}

\* a method with a first parameter that is not named self and two more,
\* called on an instance with no, one, two and three arguments, literals or
\* a variable of the caller
\*   let x = "outer x" ; let y = 0 ; let z = 0
\*   class M() { fn m(this, p, q) { self.#.y = p ; self.#.z = q } }
\*   let i = new M() ; i.m(..)
ClassM ==
    ClassDecl("M", <<>>,
        <<FnDecl("m", <<"this", "p", "q">>,
                 <<LetAssignToken("y", Var("p")), LetAssignToken("z", Var("q"))>>)>>)
MethodArityPrograms ==
    {<<LetToken("x", Str("outer x")), LetToken("y", Num(0)), LetToken("z", Num(0)),
       ClassM, LetToken("i", ClassInstantiation("M", <<>>)),
       ClassFnCallToken("m", "i", args)>> :
        args \in {<<>>, <<Num(1)>>, <<Var("x")>>, <<Num(1), Num(2)>>, <<Var("x"), Num(2)>>,
                  <<Num(1), Num(2), Num(0)>>}}

\* the compound assignments on a number and on a non-number, with a literal
\* and with a variable as the operand, at top level and in a function body,
\* next to a second variable k
\*   let x = v ; let k = 3 ; self.#.x /= w       (and -=, *=, ++, --, += k)
\*   let x = "s" ; let k = 3 ; self.#.x *= w
\*   let x = v ; let k = 3 ; fn f() { self.#.x /= k } ; f()
CompoundOps ==
    {LetAssignNumToken("x", "Div", Num(w)) : w \in Vals}
      \cup {LetAssignNumToken("x", op, Var("k")) : op \in {"Add", "Sub", "Mul", "Div"}}
      \cup {LetAssignNumToken("x", op, Num(1)) : op \in {"Add", "Sub"}}
CompoundPrograms ==
    {<<LetToken("x", x), LetToken("k", Num(MaxVal + 1)), stmt, LetToken("y", Var("x"))>> :
        x \in {Num(v) : v \in Vals} \cup {Str("s"), Value(NullToken)}, stmt \in CompoundOps}
      \cup
    {<<LetToken("x", Num(v)), LetToken("k", Num(MaxVal + 1)),
       FnDecl("f", <<>>, <<stmt>>), Call("f", <<>>), LetToken("y", Var("x"))>> :
        v \in Vals, stmt \in CompoundOps}

\* a loop of two passes whose body declares z and then calls a method on an
\* instance, or a function
\*   class P(v) { .. set .. get .. } ; fn g() { return 1 } ; let a = new P(1) ; let n = 0
\*   loop { let z = n ; <call> ; self.#.n += 1 ; if (self.n == 2) { break } }
\*   let after = n
\* and a loop of one pass that declares a z of its own before the call
\*   class P(v) { .. } ; let a = new P(1) ; let z = 0
\*   loop { let z = 1 ; a.get() ; break } ; let after = z
LoopCalls ==
    {ClassFnCallToken("get", "a", <<>>),
     LetToken("r", ClassFnCallExpr("get", "a", <<>>)),
     StaticClassFnCallToken("get", "P", <<>>),
     Call("g", <<>>),
     LetToken("r", FnCallExpr("g", <<>>))}
LoopCallPrograms ==
    {<<ClassP, FnDecl("g", <<>>, <<ReturnToken(Num(1))>>),
       LetToken("a", ClassInstantiation("P", <<Num(1)>>)), LetToken("n", Num(0)),
       LoopToken(<<LetToken("z", Var("n")), call, LetAssignNumToken("n", "Add", Num(1)),
                   IfToken(FALSE, Comparison("==", Var("n"), Num(2)), <<BreakToken>>)>>),
       LetToken("after", Var("n"))>> : call \in LoopCalls}
    \cup {<<ClassP, LetToken("a", ClassInstantiation("P", <<Num(1)>>)),
             LetToken("z", Num(0)),
             LoopToken(<<LetToken("z", Num(1)), ClassFnCallToken("get", "a", <<>>),
                         BreakToken>>),
             LetToken("after", Var("z"))>>}

\* two nested loops: the inner one breaks directly, inside a taken if, or
\* when the counter j has reached 1; the outer one makes two passes, with the
\* inner loop as the first or as the last statement of its body
\*   let i = 0 ; let j = 0 ; let m = 0
\*   loop { loop { <inner> } ; self.#.m += 1 ; self.#.i += 1 ; if (self.i == 2) { break } }
\*   loop { if (self.i == 2) { break } ; self.#.i += 1 ; loop { <inner> } }
\*   let after = m
InnerLoops ==
    {LoopToken(<<BreakToken, Mark("j")>>),
     LoopToken(<<IfToken(FALSE, True, <<BreakToken>>), Mark("j")>>),
     LoopToken(<<IfToken(FALSE, Comparison("==", Var("j"), Num(1)), <<BreakToken>>),
                 LetAssignNumToken("j", "Add", Num(1))>>)}
NestedLoopPrograms ==
    {<<LetToken("i", Num(0)), LetToken("j", Num(0)), LetToken("m", Num(0)),
       LoopToken(<<inner, LetAssignNumToken("m", "Add", Num(1)),
                   LetAssignNumToken("i", "Add", Num(1)),
                   IfToken(FALSE, Comparison("==", Var("i"), Num(2)), <<BreakToken>>)>>),
       LetToken("after", Var("m"))>> : inner \in InnerLoops}
      \cup
    {<<LetToken("i", Num(0)), LetToken("j", Num(0)), LetToken("m", Num(0)),
       LoopToken(<<IfToken(FALSE, Comparison("==", Var("i"), Num(2)), <<BreakToken>>),
                   LetAssignNumToken("i", "Add", Num(1)), inner>>),
       LetToken("after", Var("i"))>> : inner \in InnerLoops}

\* break with no loop around: at top level, in a taken if, in the body of a
\* function (directly and in a taken if), in the body of a method, and in a
\* function called after a loop has exited
\*   let m = 0 ; let n = 0 ; fn b() { break ; self.#.n = 1 }
\*   fn c() { if (true) { break ; self.#.m = 1 } ; self.#.n = 1 }
\*   class R() { fn k(self) { break ; self.#.n = 1 } } ; let a = new R()
\*   <use> ; self.#.m = 1
NoLoopBreaks ==
    {<<BreakToken>>,
     <<IfToken(FALSE, True, <<BreakToken, Mark("n")>>)>>,
     <<Call("b", <<>>)>>,
     <<Call("c", <<>>)>>,
     <<ClassFnCallToken("k", "a", <<>>)>>,
     <<StaticClassFnCallToken("k", "R", <<>>)>>,
     <<LoopToken(<<BreakToken>>), Call("b", <<>>)>>,
     <<LoopToken(<<IfToken(FALSE, True, <<BreakToken>>)>>), BreakToken>>,
     <<LoopToken(<<Call("b", <<>>), BreakToken>>), Call("c", <<>>)>>}
NoLoopBreakPrograms ==
    {<<LetToken("m", Num(0)), LetToken("n", Num(0)),
       FnDecl("b", <<>>, <<BreakToken, Mark("n")>>),
       FnDecl("c", <<>>, <<IfToken(FALSE, True, <<BreakToken, Mark("m")>>), Mark("n")>>),
       ClassDecl("R", <<>>, <<FnDecl("k", <<"self">>, <<BreakToken, Mark("n")>>)>>),
       LetToken("a", ClassInstantiation("R", <<>>))>> \o use \o <<Mark("m")>> :
        use \in NoLoopBreaks}

\* a worker that declares a name of its own while the parent declares names
\* after the spawn
\*   fn t(p) { let z = 1 ; self.#.x = z } ; let x = 0
\*   let h = thread#launch(t, 2) ; let w = 5 ; if (true) { let v = 1 } ; thread#join(h) ; let r = x
LocalWorker ==
    FnDecl("t", <<"p">>, <<LetToken("z", Num(1)), LetAssignToken("x", Var("z"))>>)
OwnNamePrograms ==
    {<<LocalWorker, LetToken("x", Num(0)),
       LetToken("h", FnCallExpr("thread#launch", <<Var("t"), Num(2)>>))>>
        \o mid \o <<Join("h"), LetToken("r", Var("x"))>> :
        mid \in {<<LetToken("w", Num(MaxVal + 3))>>,
                 <<LetToken("w", Num(MaxVal + 3)), IfToken(FALSE, True, <<LetToken("v", Num(1))>>)>>,
                 <<FnDecl("g", <<"q">>, <<LetToken("u", Var("q"))>>), Call("g", <<Num(1)>>)>>}}

\* the array literal `[]` at a place of the program: the parser makes one
\* Arc per literal (token/mod.rs:725-732), here the heap slot arc
ArrayLiteral(arc) == Value(ArrayTokenAt(arc, <<>>))
\* the slots of the literals of an array program
LiteralArcs == {1, 2}
Push(name, expr) == FnCallToken("array#push", <<Var(name), expr>>)
\* a let with an array literal executed twice, by two calls of a function, by
\* two passes of a loop and by two instantiations of a class, next to a let
\* with a literal of its own
\*   let other = [] ; fn f(v) { let a = [] ; array#push(a, v) ; return a }
\*   let p = f(1) ; let q = f(2)
\*   let other = [] ; let n = 0
\*   loop { let a = [] ; array#push(a, n) ; self.#.n += 1 ; if (self.n == 2) { break } }
\*   let other = [] ; class C() { let items = [] ; fn add(self, v) { array#push(items, v) } }
\*   let c = new C() ; let d = new C() ; c.add(1) ; d.add(2)
\*   let a = [] ; let other = [] ; array#push(a, 1) ; array#push(other, 2) ; array#push(a, 0)
ArrayPrograms ==
    {<<LetToken("other", ArrayLiteral(2)),
       FnDecl("f", <<"v">>, <<LetToken("a", ArrayLiteral(1)), Push("a", Var("v")),
                               ReturnToken(Var("a"))>>),
       LetToken("p", FnCallExpr("f", <<Num(1)>>)),
       LetToken("q", FnCallExpr("f", <<Num(2)>>))>>,
     <<LetToken("other", ArrayLiteral(2)), LetToken("n", Num(0)),
       LoopToken(<<LetToken("a", ArrayLiteral(1)), Push("a", Var("n")),
                   LetAssignNumToken("n", "Add", Num(1)),
                   IfToken(FALSE, Comparison("==", Var("n"), Num(2)), <<BreakToken>>)>>),
       LetToken("after", Var("n"))>>,
     <<LetToken("other", ArrayLiteral(2)),
       ClassDecl("C", <<>>, <<LetToken("items", ArrayLiteral(1)),
                              FnDecl("add", <<"self", "v">>, <<Push("items", Var("v"))>>)>>),
       LetToken("c", ClassInstantiation("C", <<>>)),
       LetToken("d", ClassInstantiation("C", <<>>)),
       ClassFnCallToken("add", "c", <<Num(1)>>),
       ClassFnCallToken("add", "d", <<Num(2)>>)>>,
     <<LetToken("a", ArrayLiteral(1)), LetToken("other", ArrayLiteral(2)),
       Push("a", Num(1)), Push("other", Num(2)), Push("a", Num(0)),
       LetToken("r", Var("a"))>>}

Programs ==
    ArrayPrograms \cup OwnNamePrograms \cup NoLoopBreakPrograms \cup NestedLoopPrograms \cup LoopCallPrograms \cup CompoundPrograms \cup MethodArityPrograms \cup ArityPrograms \cup AliasPrograms \cup OuterMethodPrograms \cup MainPrograms \cup ArgumentPrograms \cup NoValuePrograms \cup FormulaLoopPrograms \cup SelfAssignPrograms \cup ThreadPrograms \cup NativeNamePrograms \cup MethodPrograms \cup CallerLocalPrograms \cup UnboundPrograms \cup EqualityPrograms \cup ClosurePrograms \cup StmtCallPrograms \cup LoopReturnPrograms \cup BreakPrograms
        \cup CounterPrograms \cup CallPrograms \cup ShadowPrograms
        \cup RedeclarePrograms \cup NumAssignPrograms \cup ClassPrograms

(***************************************************************************)
(* Runtime::new and Runtime::run                                           *)
(***************************************************************************)
State == [scopes |-> scopes, call_stack |-> call_stack, lookup_cache |-> lookup_cache,
          modified_vars |-> modified_vars, heap |-> heap, log |-> log,
          nest |-> nest, nexta |-> nexta, halt |-> halt, threads |-> threads,
          locks |-> <<>>]

\* a spawned runtime that works on the frame stack, the call stack and the
\* cache of the main runtime
ThreadState_on_parent(k) ==
    [scopes |-> scopes, call_stack |-> call_stack,
     lookup_cache |-> lookup_cache,
     modified_vars |-> modified_vars, heap |-> heap,
     log |-> threads[k].log, nest |-> threads[k].nest, nexta |-> nexta,
     halt |-> threads[k].halt, threads |-> threads, locks |-> <<>>]

\* the Runtime of the spawned thread k, on the shared heap
ThreadState(k) ==
    [scopes |-> threads[k].scopes, call_stack |-> threads[k].call_stack,
     lookup_cache |-> threads[k].lookup_cache,
     modified_vars |-> threads[k].modified_vars, heap |-> heap,
     log |-> threads[k].log, nest |-> threads[k].nest, nexta |-> nexta,
     halt |-> threads[k].halt, threads |-> threads, locks |-> <<>>]

Init ==
    /\ tokens \in Programs
    /\ pc = 1
    /\ scopes = <<EmptyMap>>
    /\ call_stack = <<>>
    /\ lookup_cache = EmptyMap
    /\ modified_vars = {}
    /\ heap = IF tokens \in ArrayPrograms
              THEN [arc \in LiteralArcs |-> [t |-> "Vec", elems |-> <<>>]]
              ELSE EmptyMap
    /\ log = <<>>
    /\ nest = <<>>
    /\ nexta = 1
    /\ halt = "ok"
    /\ threads = <<>>

\* one iteration of `for token in tokens_clone { self.execute(&token); }`
run_step(s, token) == run_statement(s, pc, token).s

\* the loop of Runtime::run is at a statement of the given kind
Ready(kind) ==
    /\ halt = "ok"
    /\ pc <= Len(tokens)
    /\ tokens[pc].t = kind

\* how a statement that ended in state n leaves the thread: a write on a
\* lock the thread holds a read guard of blocks the thread for ever or
\* panics, whichever the lock of the platform does
Outcomes(n) == IF n.halt = "selflock" THEN {"deadlock", "panic"} ELSE {n.halt}

\* one iteration of the loop of Runtime::run: the statement at pc is executed
\* with everything it calls
Run ==
    /\ \E n \in {run_step(State, tokens[pc])} :
          /\ n.halt # "blocked"
          /\ threads' = n.threads
          /\ scopes' = n.scopes
          /\ call_stack' = n.call_stack
          /\ lookup_cache' = n.lookup_cache
          /\ modified_vars' = n.modified_vars
          /\ heap' = n.heap
          /\ log' = n.log
          /\ nest' = n.nest
          /\ nexta' = n.nexta
          /\ halt' \in Outcomes(n)
    /\ pc' = pc + 1
    /\ UNCHANGED tokens

\* one iteration of the loop of Runtime::run in a spawned thread; the
\* process, and every thread with it, ends when the main runtime has run
\* its last statement or has panicked
ThreadRun ==
    /\ halt = "ok"
    /\ pc <= Len(tokens)
    /\ \E k \in 1..Len(threads) :
          /\ threads[k].halt = "ok"
          /\ threads[k].pc <= Len(threads[k].tokens)
          /\ \E n \in {run_statement(ThreadState(k), threads[k].pc,
                                      threads[k].tokens[threads[k].pc]).s} :
                /\ n.halt # "blocked"
                /\ \E h \in Outcomes(n) : threads' = [n.threads EXCEPT
                                  ![k] = [tokens |-> threads[k].tokens,
                                          pc |-> threads[k].pc + 1,
                                          scopes |-> n.scopes,
                                          call_stack |-> n.call_stack,
                                          lookup_cache |-> n.lookup_cache,
                                          modified_vars |-> n.modified_vars,
                                          log |-> n.log,
                                          nest |-> n.nest,
                                          halt |-> h,
                                          memory |-> n.threads[k].memory]]
                /\ heap' = n.heap
                /\ nexta' = n.nexta
    /\ UNCHANGED <<tokens, pc, scopes, call_stack, lookup_cache, modified_vars,
                   log, nest, halt>>

RunLet == Ready("Let") /\ Run
RunLetAssign == Ready("LetAssign") /\ Run
RunLetAssignNum == Ready("LetAssignNum") /\ Run
RunFnCall == Ready("FnCall") /\ Run
RunStaticClassFnCall == Ready("StaticClassFnCall") /\ Run
RunClassFnCall == Ready("ClassFnCall") /\ Run
RunLoop == Ready("Loop") /\ Run
RunIf == Ready("If") /\ Run
RunBreak == Ready("Break") /\ Run

Next ==
    \/ RunLet
    \/ RunLetAssign
    \/ RunLetAssignNum
    \/ RunFnCall
    \/ RunStaticClassFnCall
    \/ RunClassFnCall
    \/ RunLoop
    \/ RunIf
    \/ RunBreak
    \/ ThreadRun

Spec == Init /\ [][Next]_vars

(***************************************************************************)
(* The operations of ValueToken on every kind of value: the operands are   *)
(* bound in the global frame when the program starts, as they are after    *)
(* `let l = ..` and `let r = ..` have put a value of any origin (a         *)
(* literal, a native's result such as the buffer of tcp#read) into them    *)
(***************************************************************************)
\* the longest byte vector of a buffer, and the largest byte
MaxLen == 2
MaxByte == 1
Buffers == {BufferToken(b) : b \in UNION {[1..k -> 0..MaxByte] : k \in 0..MaxLen}}
Arrays == {ArrayToken(<<>>), ArrayToken(<<NumberToken(0)>>),
           ArrayToken(<<NullToken, StringToken("")>>)}
Composites ==
    {FunctionToken("f", <<>>, <<>>), ClassToken("C", <<>>, <<>>),
     ClassInstanceToken(ClassToken("C", <<>>, <<>>), EmptyMap),
     NativeMemoryToken("Thread", 1), RangeToken(NumberToken(0), NumberToken(1))}
Values == Scalars \cup Arrays \cup Buffers \cup Composites

\*   let strict = l === r ; let same = l === l ; let loose = l == r
\*   let yes = false ; if (l) { self.#.yes = true }
ValueProgram ==
    <<LetToken("strict", Comparison("===", Var("l"), Var("r"))),
      LetToken("same", Comparison("===", Var("l"), Var("l"))),
      LetToken("loose", Comparison("==", Var("l"), Var("r"))),
      LetToken("yes", Value(BooleanToken(FALSE))),
      IfToken(FALSE, Var("l"), <<LetAssignToken("yes", True)>>)>>

ValueInit ==
    /\ tokens = ValueProgram
    /\ pc = 1
    /\ scopes = <<[n \in {"l", "r"} |-> IF n = "l" THEN 1 ELSE 2]>>
    /\ call_stack = <<>>
    /\ lookup_cache = scopes[1]
    /\ modified_vars = {"l", "r"}
    /\ \E a \in Values, b \in Values : heap = <<a, b>>
    /\ log = <<>>
    /\ nest = <<>>
    /\ nexta = 1
    /\ halt = "ok"
    /\ threads = <<>>

ValueNext ==
    \/ RunLet
    \/ RunIf

ValueSpec == ValueInit /\ [][ValueNext]_vars

(***************************************************************************)
(* Reading the trace                                                       *)
(***************************************************************************)
Min(S) == CHOOSE x \in S : \A y \in S : x <= y
Max(S) == CHOOSE x \in S : \A y \in S : x >= y
Entries == 1..Len(log)
IsPrefix(a, b) == Len(a) <= Len(b) /\ SubSeq(b, 1, Len(a)) = a
Front(q) == SubSeq(q, 1, Len(q) - 1)
\* the first entry of kind k after entry i, 0 when there is none
NextOfKind(i, k) ==
    LET S == {j \in (i + 1)..Len(log) : log[j].k = k}
    IN IF S = {} THEN 0 ELSE Min(S)
\* the position in ctx of the innermost construct of a mode, 0 when none
Innermost(ctx, mode) ==
    LET S == {p \in 1..Len(ctx) : ctx[p].mode = mode}
    IN IF S = {} THEN 0 ELSE Max(S)
\* the position in ctx of the innermost construct that is not an if
InnermostNonIf(ctx) ==
    LET S == {p \in 1..Len(ctx) : ctx[p].mode # "If"}
    IN IF S = {} THEN 0 ELSE Max(S)
\* what a name resolves to in a snapshot, and what a full walk finds
SnapResolve(snap, name) == Resolve(snap.scopes, snap.cache, snap.modified, name)
SnapWalk(snap, name) == Walk(snap.scopes, name)
SnapNames(snap) ==
    (DOMAIN snap.cache) \cup UNION {DOMAIN snap.scopes[i] : i \in 1..Len(snap.scopes)}
Now == Snap(State)
\* the value name resolves to in the snapshot, Null when it resolves to nothing
SnapResolved(snap, name) ==
    IF SnapResolve(snap, name) = 0 THEN NullToken ELSE snap.heap[SnapResolve(snap, name)]
\* entry i is the start of the statement whose end is entry j
StartOf(i, j) ==
    /\ i < j
    /\ log[i].k = "exec"
    /\ log[j].k = "done"
    /\ log[i].ctx = log[j].ctx
    /\ log[i].i = log[j].i

(***************************************************************************)
(* Claims                                                                  *)
(***************************************************************************)
CacheAgrees(snap) ==
    \A n \in SnapNames(snap) :
        n \notin snap.modified => SnapResolve(snap, n) = SnapWalk(snap, n)

\* C1: between any two statements of a run, for every name that is not in
\* the dirty set, resolve(name) returns what an innermost-to-outermost walk
\* of the frame stack returns (the same cell, or not found).
C1_CacheAgreesWithWalk ==
    /\ halt = "ok" => CacheAgrees(Now)
    /\ \A i \in Entries : log[i].k \in {"exec", "done"} => CacheAgrees(log[i].snap)

\* C2: a user function called in statement position inside a function
\* body, an if body or a loop body that returns via Return does not stop
\* the enclosing construct: no body ever stops on the Return that a call
\* statement hands up, so the construct goes on with its next statement and
\* does not return the callee's payload.
C2_ReturnConsumedByCall ==
    \A i \in Entries :
        log[i].k = "stop" => ~(log[i].tok.t = "FnCall" /\ IsReturn(log[i].res))

\* the entry is the end of a Return statement whose innermost enclosing
\* construct other than an if is a loop, inside a function
ReturnInLoopInFunction(i) ==
    /\ log[i].k = "done"
    /\ log[i].tok.t = "Return"
    /\ LET p == InnermostNonIf(log[i].ctx)
       IN /\ p > 0
          /\ log[i].ctx[p].mode = "Loop"
          /\ \E q \in 1..(p - 1) : log[i].ctx[q].mode = "Function"

\* C3: a Return executed inside a loop body (directly or inside a taken if)
\* within a function stops the loop at once: the statement executed next, if
\* any, is outside the loop, and the payload is the result of the enclosing
\* function call.
C3_ReturnStopsLoop ==
    \A i \in Entries :
        ReturnInLoopInFunction(i) =>
            LET ctx == log[i].ctx
                p == InnermostNonIf(ctx)
                q == Max({c \in 1..(p - 1) : ctx[c].mode = "Function"})
                n == NextOfKind(i, "exec")
                ends == {j \in (i + 1)..Len(log) :
                            log[j].k = "call_end" /\ log[j].ctx = SubSeq(ctx, 1, q)}
            IN /\ n # 0 => Len(log[n].ctx) < p
               /\ \A j \in ends : log[j].res = log[i].res

\* C4: whenever a break statement executes while a loop is on the call
\* stack, the innermost such loop executes no further statement of its body:
\* the statement executed next, if any, is outside that loop; also when the
\* break is in the body of a function called from the loop body.
C4_BreakStopsInnermostLoop ==
    \A i \in Entries :
        (/\ log[i].k = "done"
         /\ log[i].tok.t = "Break"
         /\ Innermost(log[i].ctx, "Loop") > 0) =>
            LET n == NextOfKind(i, "exec")
            IN n # 0 => Len(log[n].ctx) < Innermost(log[i].ctx, "Loop")

\* the Return statements executed in the body of the function activation
\* act, directly or inside a taken if, before entry j
OwnReturns(act, j) ==
    {i \in 1..(j - 1) :
        /\ log[i].k = "done"
        /\ log[i].tok.t = "Return"
        /\ IsPrefix(act, log[i].ctx)
        /\ \A c \in (Len(act) + 1)..Len(log[i].ctx) : log[i].ctx[c].mode = "If"}

\* C5: a user function called in expression position evaluates to the
\* payload of the first Return executed in its body (directly or inside a
\* taken if), and to Null when its body finishes without executing a Return.
C5_CallValueIsReturnPayload ==
    \A j \in Entries :
        (log[j].k = "expr_call_end" /\ j > 1 /\ log[j - 1].k = "call_end") =>
            LET rets == OwnReturns(log[j - 1].ctx, j)
            IN IF rets = {} THEN log[j].val = Some(NullToken)
               ELSE log[j].val = Some(log[Min(rets)].res.v.value.value)

\* events that bind name in some frame: a let that took effect, or a parameter
Binds(i, name) ==
    /\ log[i].k \in {"let", "bind"}
    /\ log[i].name = name
    /\ log[i].k = "let" => log[i].bound
\* events that write the variable name: a binding or an assignment
Writes(i, name) ==
    Binds(i, name) \/ (log[i].k = "assign" /\ log[i].name = name)
\* the name is bound exactly once in the whole run
SingleBinding(name) ==
    Cardinality({i \in Entries : Binds(i, name)}) = 1
\* the latest write of name before entry r, 0 if there is none
LastWrite(r, name) ==
    LET W == {w \in 1..(r - 1) : Writes(w, name)}
    IN IF W = {} THEN 0 ELSE Max(W)
\* ctx is the block of base or an if nested in it
InBlock(base, ctx) ==
    /\ IsPrefix(base, ctx)
    /\ \A c \in (Len(base) + 1)..Len(ctx) : ctx[c].mode = "If"
\* the innermost frame of a snapshot
TopFrame(snap) == snap.scopes[Len(snap.scopes)]

\* entry i is an inner let of a name that an outer frame binds, executed in
\* the frame of an if body, a loop body or a function body
ShadowingLet(i) ==
    /\ log[i].k = "let"
    /\ log[i].bound
    /\ Len(log[i].ctx) >= 1
    /\ log[i].ctx[Len(log[i].ctx)].mode \in {"If", "Loop", "Function"}
    /\ log[i].outer # 0
\* the reads of the name in the inner block after the let, up to the next
\* binding of the name
InnerReads(i) ==
    {r \in (i + 1)..Len(log) :
        /\ log[r].k = "read"
        /\ log[r].name = log[i].name
        /\ InBlock(log[i].ctx, log[r].ctx)
        /\ \A b \in (i + 1)..(r - 1) : ~Binds(b, log[i].name)}
\* the end of the statement that the block of entry i belongs to, 0 if not yet
BlockExit(i) ==
    LET S == {d \in (i + 1)..Len(log) :
                 log[d].k = "done" /\ log[d].ctx = Front(log[i].ctx)}
    IN IF S = {} THEN 0 ELSE Min(S)

\* C6: for an inner let x in a nested frame while an outer frame binds x,
\* every read of x in the inner block after the let sees the inner cell (and
\* the let's value until x is written again), and after the block exits x
\* resolves to the outer cell, which holds the value it had.
C6_Shadowing ==
    \A i \in Entries :
        ShadowingLet(i) =>
            /\ \A r \in InnerReads(i) :
                  /\ log[r].cell = log[i].cell
                  /\ LastWrite(r, log[i].name) = i => log[r].val = log[i].val
            /\ BlockExit(i) # 0 =>
                  LET snap == log[BlockExit(i)].snap
                  IN /\ SnapResolve(snap, log[i].name) = log[i].outer
                     /\ snap.heap[log[i].outer] = log[i].outerval

C6_Witness ==
    \E i \in Entries :
        /\ ShadowingLet(i)
        /\ InnerReads(i) # {}
        /\ BlockExit(i) # 0
        /\ log[i].val # log[i].outerval
        /\ \E r \in (BlockExit(i) + 1)..Len(log) :
              log[r].k = "read" /\ log[r].name = log[i].name /\ log[r].cell = log[i].outer


\* C7: for functions that use the same free variable, bound once in an
\* enclosing frame, a read of the variable in a function body returns the
\* value of the latest assignment to it, whichever function made it, for any
\* interleaving of the calls.
C7_ClosureSharing ==
    \A r \in Entries :
        (/\ log[r].k = "read"
         /\ Innermost(log[r].ctx, "Function") > 0
         /\ SingleBinding(log[r].name)
         /\ LastWrite(r, log[r].name) # 0) =>
            log[r].val = log[LastWrite(r, log[r].name)].val

C7_Witness ==
    \E r \in Entries :
        /\ log[r].k = "read"
        /\ Innermost(log[r].ctx, "Function") > 0
        /\ SingleBinding(log[r].name)
        /\ LastWrite(r, log[r].name) # 0
        /\ LET w == log[LastWrite(r, log[r].name)]
           IN /\ w.k = "assign"
              /\ Innermost(w.ctx, "Function") > 0
              /\ w.ctx # log[r].ctx
              /\ w.val = NumberToken(MaxVal)
              /\ log[r].val = NumberToken(MaxVal)

\* the statement entries around an event of a let: its start and its end
LetStart(i) ==
    Max({e \in 1..(i - 1) : log[e].k = "exec" /\ log[e].ctx = log[i].ctx})
LetEnd(i) ==
    LET S == {d \in (i + 1)..Len(log) : log[d].k = "done" /\ log[d].ctx = log[i].ctx}
    IN IF S = {} THEN 0 ELSE Min(S)
\* entry i is a let for a name that the innermost frame already binds
Redeclaration(i) == log[i].k = "let" /\ ~log[i].bound
\* the reads of the name in the same block after entry i, up to the next write
ReadsAfter(i) ==
    {r \in (i + 1)..Len(log) :
        /\ log[r].k = "read"
        /\ log[r].name = log[i].name
        /\ log[r].ctx = log[i].ctx
        /\ \A b \in (i + 1)..(r - 1) : ~Writes(b, log[i].name)}

\* C8: executing let for a name that the innermost frame already binds
\* changes nothing: the frames and the cells are after the statement what
\* they were before it, and a later read of the name returns the value the
\* binding had.
C8_RedeclarationNoOp ==
    \A i \in Entries :
        (Redeclaration(i) /\ LetEnd(i) # 0) =>
            LET before == log[LetStart(i)].snap
                after == log[LetEnd(i)].snap
                first == before.heap[TopFrame(before)[log[i].name]]
            IN /\ after.scopes = before.scopes
               /\ after.heap = before.heap
               /\ \A r \in ReadsAfter(i) : log[r].val = first

C8_Witness ==
    \E i \in Entries :
        /\ Redeclaration(i)
        /\ LetEnd(i) # 0
        /\ log[i].val.t = "Number"
        /\ log[i].val # log[LetStart(i)].snap.heap[TopFrame(log[LetStart(i)].snap)[log[i].name]]
        /\ ReadsAfter(i) # {}

\* the value of the variable name in a snapshot, by a walk of the frames
SnapValue(snap, name) == snap.heap[SnapWalk(snap, name)]
\* entry d is the end of a counting loop with threshold N that started with
\* the counter x at 0
CounterLoopEnd(d, N) ==
    /\ log[d].k = "done"
    /\ log[d].tok = CounterLoop(N)
    /\ SnapValue(log[LetStart(d)].snap, "x") = NumberToken(0)

\* C9: a loop whose body breaks when the outer counter equals N and
\* otherwise increments it, started with the counter at 0, terminates, and
\* the counter is N once the loop has exited (for N up to MaxN, which covers
\* 0, 1 and 5).
C9_CounterLoop ==
    /\ halt # "diverged"
    /\ \A d \in Entries : \A N \in 0..MaxN :
          CounterLoopEnd(d, N) => SnapValue(log[d].snap, "x") = NumberToken(N)

C9_Witness ==
    \E d \in Entries :
        /\ CounterLoopEnd(d, MaxN)
        /\ SnapValue(log[d].snap, "x") = NumberToken(MaxN)
        /\ pc > Len(tokens)

\* entry c starts a call of a user function with fewer arguments than parameters
ShortCall(c) ==
    log[c].k = "call" /\ Len(log[c].args) < Len(log[c].fn.args)
\* the first statement of the callee's body that is not one of the lets the
\* tokenizer puts in for the parameters
FirstBodyStatement(c) ==
    LET S == {e \in (c + 1)..Len(log) :
                 /\ log[e].k = "exec"
                 /\ log[e].ctx = log[c].ctx
                 /\ \A j \in 1..Len(log[c].fn.args) :
                        log[e].tok # LetToken(log[c].fn.args[j], Value(NullToken))}
    IN IF S = {} THEN 0 ELSE Min(S)
\* the argument refers to no parameter of the callee
PlainArg(c, j) ==
    log[c].args[j].e = "Value"
        \/ (log[c].args[j].e = "Let"
              /\ \A q \in 1..Len(log[c].fn.args) : log[c].args[j].name # log[c].fn.args[q])
\* the value of argument j where the call is made
ArgValue(c, j) ==
    IF log[c].args[j].e = "Value" THEN log[c].args[j].value
    ELSE SnapValue(log[c].snap, log[c].args[j].name)

\* C10: when a user function with n parameters is called with k < n
\* arguments, parameters 1..k are bound in the callee's frame to the argument
\* values in order and each of the parameters k+1..n is bound to Null.
C10_MissingArgsNull ==
    \A c \in Entries :
        (ShortCall(c) /\ FirstBodyStatement(c) # 0) =>
            LET snap == log[FirstBodyStatement(c)].snap
                frame == TopFrame(snap)
                params == log[c].fn.args
                k == Len(log[c].args)
            IN /\ \A j \in 1..Len(params) : params[j] \in DOMAIN frame
               /\ \A j \in (k + 1)..Len(params) : snap.heap[frame[params[j]]] = NullToken
               /\ \A j \in 1..k :
                     PlainArg(c, j) => snap.heap[frame[params[j]]] = ArgValue(c, j)

C10_Witness ==
    \E c \in Entries :
        /\ ShortCall(c)
        /\ FirstBodyStatement(c) # 0
        /\ Len(log[c].args) = 1
        /\ Len(log[c].fn.args) >= 2
        /\ LET snap == log[FirstBodyStatement(c)].snap
           IN /\ snap.heap[TopFrame(snap)[log[c].fn.args[1]]] = NumberToken(MaxVal)
              /\ snap.heap[TopFrame(snap)[log[c].fn.args[2]]] = NullToken
              /\ SnapWalk(log[c].snap, log[c].fn.args[2]) # 0

(***************************************************************************)
(* Instances, threads and dispatch                                         *)
(***************************************************************************)
\* entry j is the end of a method call in expression position through the
\* instance bound to o, whose field map holds the method
FieldRead(j, o) ==
    /\ log[j].k = "expr_method_end"
    /\ log[j].e = "ClassFnCall"
    /\ log[j].receiver = o
    /\ SnapWalk(log[j].snap, o) # 0
    /\ SnapValue(log[j].snap, o).t = "ClassInstance"
    /\ log[j].name \in DOMAIN SnapValue(log[j].snap, o).scope

\* entry i is a method call through o whose body assigns
MutationThrough(i, o) ==
    /\ log[i].k = "method"
    /\ log[i].receiver = o
    /\ \E m \in Entries :
          m > i /\ log[m].k = "assign" /\ IsPrefix(log[i].inner, log[m].ctx)

\* in the snapshot, o and other are bound to two instances of one class
SameClass(snap, o, other) ==
    /\ o # other
    /\ SnapWalk(snap, o) # 0 /\ SnapWalk(snap, other) # 0
    /\ SnapValue(snap, o).t = "ClassInstance"
    /\ SnapValue(snap, other).t = "ClassInstance"
    /\ SnapValue(snap, o).class = SnapValue(snap, other).class

\* C11: a field read through one instance before and after a mutation made
\* through another instance of the same class, with no mutation through the
\* instance itself in between, gives the same value
C11_InstanceIsolation ==
    \A j1 \in Entries : \A j2 \in Entries :
        (/\ j1 < j2
         /\ log[j1].k = "expr_method_end"
         /\ log[j2].k = "expr_method_end"
         /\ FieldRead(j1, log[j1].receiver)
         /\ FieldRead(j2, log[j1].receiver)
         /\ log[j1].name = log[j2].name
         /\ \E i \in Entries :
               /\ j1 < i /\ i < j2
               /\ log[i].k = "method"
               /\ MutationThrough(i, log[i].receiver)
               /\ SameClass(log[j1].snap, log[j1].receiver, log[i].receiver)
         /\ ~\E i \in Entries : j1 < i /\ i < j2 /\ MutationThrough(i, log[j1].receiver))
        => log[j1].val = log[j2].val

\* the statements of the spawned thread k that bring in an inherited name
Inherited(k) ==
    {i \in 1..Len(threads[k].tokens) :
        threads[k].tokens[i].t = "Let" /\ threads[k].tokens[i].value.e = "Cell"}

\* C12: once a spawned thread has declared an inherited name, its bottom
\* frame binds the name to the very cell the parent holds under it, so that
\* both read the same value whoever assigned last
C12_SpawnSharesCells ==
    \A k \in 1..Len(threads) : \A i \in Inherited(k) :
        threads[k].pc > i
        => /\ threads[k].tokens[i].name \in DOMAIN threads[k].scopes[1]
           /\ threads[k].scopes[1][threads[k].tokens[i].name]
                = threads[k].tokens[i].value.cell
           /\ heap[threads[k].scopes[1][threads[k].tokens[i].name]]
                = heap[threads[k].tokens[i].value.cell]

\* the main runtime has returned from a join of the spawned thread k
Joined(k) == \E j \in Entries : log[j].k = "join" /\ log[j].thread = k

\* the assignments the spawned thread k made to name
ThreadAssigns(k, name) ==
    {m \in 1..Len(threads[k].log) :
        threads[k].log[m].k = "assign" /\ threads[k].log[m].name = name}

\* C13: after the join of a spawned thread has returned, the parent reads
\* in an inherited variable that it did not assign itself the value of the
\* last assignment the thread made to it
C13_JoinPublishesAssignments ==
    \A k \in 1..Len(threads) : \A i \in Inherited(k) :
        (/\ Joined(k)
         /\ ThreadAssigns(k, threads[k].tokens[i].name) # {}
         /\ ~\E m \in Entries :
               log[m].k = "assign" /\ log[m].name = threads[k].tokens[i].name)
        => SnapResolved(Now, threads[k].tokens[i].name)
             = threads[k].log[Max(ThreadAssigns(k, threads[k].tokens[i].name))].val

\* entry i starts a statement thread#join(name)
JoinStart(i) ==
    /\ log[i].k = "exec"
    /\ log[i].tok.t = "FnCall"
    /\ log[i].tok.name = "thread#join"
    /\ Len(log[i].tok.args) = 1
    /\ log[i].tok.args[1].e = "Let"

\* the value the join of entry i is given
JoinOperand(i) == SnapResolved(log[i].snap, log[i].tok.args[1].name)

\* the join of entry i is given something that is not a live thread handle:
\* no handle at all, or a handle that was joined before
NotLiveHandle(i) ==
    \/ JoinOperand(i).t # "NativeMemory"
    \/ \E j \in 1..(i - 1) : log[j].k = "join" /\ log[j].thread = JoinOperand(i).memory

\* C14: a join that has returned was given a thread that has executed its
\* last statement, and a join that is given anything but a live thread
\* handle aborts the run: it neither returns nor blocks
C14_JoinWaitsOrFails ==
    /\ \A k \in 1..Len(threads) :
          Joined(k) => (threads[k].pc > Len(threads[k].tokens) /\ threads[k].halt = "ok")
    /\ \A i \in Entries :
          (JoinStart(i) /\ NotLiveHandle(i))
          => (halt = "panic" /\ ~\E j \in Entries : StartOf(i, j))

\* a first join has returned and a second join of the same handle has failed
C14_Witness ==
    /\ \E k \in 1..Len(threads) : Joined(k)
    /\ \E i \in Entries : JoinStart(i) /\ NotLiveHandle(i)
    /\ halt = "panic"

\* C15: when a statement has finished, the frame stack is as deep as it was
\* when the statement started
C15_FramesBalanced ==
    \A i \in Entries : \A j \in Entries :
        StartOf(i, j) => Len(log[j].snap.scopes) = Len(log[i].snap.scopes)

\* the frame of the snapshot in which name is bound innermost, 0 when none
DefFrame(snap, name) ==
    IF \A k \in 1..Len(snap.scopes) : name \notin DOMAIN snap.scopes[k] THEN 0
    ELSE Max({k \in 1..Len(snap.scopes) : name \in DOMAIN snap.scopes[k]})

\* the cells bound in the frames lo..hi of the snapshot
CellsOf(snap, lo, hi) ==
    UNION {{snap.scopes[k][n] : n \in DOMAIN snap.scopes[k]} : k \in lo..hi}

\* the cells that exist only in the frames of the caller: snap is the state
\* in which the function named fname is called, and the frames above the one
\* that holds the function are not part of the function's defining scope
CallerOnly(snap, fname) ==
    CellsOf(snap, DefFrame(snap, fname) + 1, Len(snap.scopes))
        \ CellsOf(snap, 1, DefFrame(snap, fname))

\* entry c is the call whose body entry m belongs to
CallOf(c, m) ==
    /\ c < m
    /\ log[c].k = "call"
    /\ Innermost(log[m].ctx, "Function") # 0
    /\ log[c].ctx = SubSeq(log[m].ctx, 1, Innermost(log[m].ctx, "Function"))

\* C16: a function body neither reads nor assigns a cell that is bound only
\* in the frames of its caller
C16_LexicalScoping ==
    \A c \in Entries : \A m \in Entries :
        (/\ log[m].k \in {"read", "assign"}
         /\ log[m].cell # 0
         /\ CallOf(c, m))
        => log[m].cell \notin CallerOnly(log[c].snap, log[c].fn.name)

\* C17: a call of a native name never enters a user function, whatever the
\* frames bind the name to; thread#launch in expression position gives a
\* thread handle, and a finished thread#join has joined a thread
C17_NativeFirst ==
    /\ \A c \in Entries : log[c].k = "call" => log[c].name \notin FUNCTIONS
    /\ \A e \in Entries :
          (log[e].k = "expr_call_end" /\ log[e].name = "thread#launch")
          => (log[e].val.some /\ log[e].val.v.t = "NativeMemory")
    /\ \A i \in Entries : \A j \in Entries :
          (StartOf(i, j) /\ JoinStart(i))
          => \E m \in Entries : i < m /\ m < j /\ log[m].k = "join"

\* the frames bind both native names to user functions, and a launch and a
\* join have been executed
C17_Witness ==
    /\ \A name \in {"thread#launch", "thread#join"} :
          SnapResolved(Now, name).t = "Function"
    /\ \E e \in Entries : log[e].k = "expr_call_end" /\ log[e].name = "thread#launch"
    /\ \E i \in Entries : \E j \in Entries : StartOf(i, j) /\ JoinStart(i)

\* entry m is the evaluation of a name that no frame binds
UnboundRead(m) == log[m].k = "read" /\ log[m].cell = 0

\* C18: after the evaluation of a name that no frame binds the run goes on:
\* it is never aborted, and the statement that evaluated the name finishes
C18_UnboundNameIsNull ==
    \A m \in Entries :
        UnboundRead(m)
        => /\ halt # "panic"
           /\ (pc > Len(tokens) => \E j \in Entries : j > m /\ log[j].k = "done")

\* the statements of body declare name
Declares(body, name) ==
    \E b \in 1..Len(body) : body[b].t = "Let" /\ body[b].name = name

\* entry i starts a call statement that has nothing to call: a method the
\* instance's field map does not hold, a method the class body does not
\* declare, or a name that resolves to no function
MissingCall(i) ==
    /\ log[i].k = "exec"
    /\ \/ /\ log[i].tok.t = "ClassFnCall"
          /\ SnapResolved(log[i].snap, log[i].tok.instance).t = "ClassInstance"
          /\ log[i].tok.name \notin
                DOMAIN SnapResolved(log[i].snap, log[i].tok.instance).scope
       \/ /\ log[i].tok.t = "StaticClassFnCall"
          /\ SnapResolved(log[i].snap, log[i].tok.class).t = "Class"
          /\ ~Declares(SnapResolved(log[i].snap, log[i].tok.class).body, log[i].tok.name)
       \/ /\ log[i].tok.t = "FnCall"
          /\ SnapResolved(log[i].snap, log[i].tok.name).t # "Function"

\* C19: a call statement that has nothing to call runs no body and yields
\* the fallthrough signal with Null, so that the statements after it execute
C19_MissingCallFallsThrough ==
    \A i \in Entries : \A j \in Entries :
        (StartOf(i, j) /\ MissingCall(i))
        => /\ log[j].res = Fallthrough
           /\ ~\E m \in Entries :
                 i < m /\ m < j /\ log[m].k \in {"method", "call"}

\* the run is that of an equality program and has finished
EqualityDone == tokens \in EqualityPrograms /\ pc > Len(tokens)
Operand(side) ==
    IF side = "left" THEN tokens[1].value.left.value ELSE tokens[1].value.right.value
\* what the program found: a === b and a == b
StrictResult == heap[scopes[1]["s"]].value
LooseResult == heap[scopes[1]["l"]].value
\* the same variant with an equal payload (numbers equal as numbers)
SameVariantAndPayload(a, b) ==
    /\ a.t = b.t
    /\ a.t # "Null" => a.value = b.value

\* C20: on scalars a == b is the equality of the rendered forms, a === b is
\* the equality of variant and payload, "1" == 1 holds, "1" === 1 does not,
\* and a === b implies a == b
C20_Equality ==
    EqualityDone
    => /\ LooseResult <=> (value(Operand("left")) = value(Operand("right")))
       /\ StrictResult <=> SameVariantAndPayload(Operand("left"), Operand("right"))
       /\ (Operand("left") = StringToken("1") /\ Operand("right") = NumberToken(1))
             => (LooseResult /\ ~StrictResult)
       /\ StrictResult => LooseResult

(***************************************************************************)
(* Values: strict equality and truthiness of every kind                    *)
(***************************************************************************)
ValueDone == tokens = ValueProgram /\ pc > Len(tokens) /\ halt = "ok"
Left == heap[scopes[1]["l"]]
Right == heap[scopes[1]["r"]]
Found(name) == heap[scopes[1][name]].value
NeverEqualKinds == {"Array", "Function", "Class", "ClassInstance", "NativeMemory"}
SameBytes(a, b) ==
    /\ Len(a) = Len(b)
    /\ \A i \in 1..Len(a) : a[i] = b[i]

\* C21: two buffers are strict-equal exactly when they have the same length
\* and the same byte at every index; an array, a function, a class, an
\* instance or a native handle is strict-equal to nothing, itself included
C21_BufferEquality ==
    ValueDone
    => /\ (Left.t = "Buffer" /\ Right.t = "Buffer")
             => (Found("strict") <=> SameBytes(Left.value, Right.value))
       /\ Left.t \in NeverEqualKinds => (~Found("strict") /\ ~Found("same"))

\* the values the statement of C22 lists as false
ListedFalse(v) ==
    \/ v = StringToken("")
    \/ v.t = "Number" /\ v.value = 0
    \/ v = BooleanToken(FALSE)
    \/ v = NullToken
    \/ v = ArrayToken(<<>>)

\* C22 as stated: `if (l)` runs its body for every value of l but the empty
\* string, the number zero, false, null and the empty array; every buffer
\* runs it
C22_EveryBufferTruthy == ValueDone => (Found("yes") <=> ~ListedFalse(Left))

\* C22: `if (l)` skips its body exactly when l is the empty string, the
\* number zero, false, null, the empty array or the empty buffer; every other
\* value of every variant runs it
C22_Truthiness ==
    ValueDone => (Found("yes") <=> ~(ListedFalse(Left) \/ Left = BufferToken(<<>>)))

\* the empty buffer has skipped the body and a buffer with a byte has run it
C22_Witness ==
    /\ ValueDone
    /\ Left = BufferToken(<<>>)
    /\ Right.t = "Buffer" /\ Len(Right.value) > 0
    /\ ~Found("yes")

(***************************************************************************)
(* Locks, the aggregate, loops, arguments                                  *)
(***************************************************************************)
\* entry e is a statement of the body of a function or method
InFunctionBody(e) ==
    /\ log[e].k = "exec"
    /\ \E i \in 1..Len(log[e].ctx) : log[e].ctx[i].mode = "Function"

\* C23: when a statement of a function or method body starts, the thread
\* holds no guard of a variable cell, and no thread is ever blocked by a
\* write on a cell it holds a guard of
C23_NoLockHeldInBody ==
    /\ \A e \in Entries : InFunctionBody(e) => log[e].snap.locks = <<>>
    /\ halt # "deadlock"
    /\ \A k \in 1..Len(threads) : threads[k].halt # "deadlock"

\* C24: the map a non-forced aggregate call returns holds every name bound in
\* any frame of the stack, each with its innermost cell
C24_AggregateComplete ==
    \A e \in Entries :
        (log[e].k = "aggregate" /\ ~log[e].force)
        => log[e].map = Flatten(log[e].snap.scopes)

\* entry e is the point at which the body of a loop pass or of a function
\* stops before its last statement because a statement yielded no value
StoppedOnNone(e) ==
    /\ log[e].k = "stop"
    /\ ~log[e].res.some
    /\ Len(log[e].ctx) > 0
    /\ log[e].ctx[Len(log[e].ctx)].mode \in {"Loop", "Function"}

\* a break statement was executed in the pass or body that stops at entry e
BreakExecutedIn(e) ==
    \E b \in 1..(e - 1) :
        /\ log[b].k = "exec"
        /\ log[b].tok.t = "Break"
        /\ IsPrefix(log[e].ctx, log[b].ctx)

\* C25: the statements of a loop pass, and of a function body, stop on a
\* statement without a value only when a break statement has been executed
\* in that pass or body
C25_OnlyBreakStops ==
    \A e \in Entries : StoppedOnNone(e) => BreakExecutedIn(e)

\* entry c starts a function call, a method call or an instantiation
Invocation(c) == log[c].k \in {"call", "method", "instantiate"}
\* the context in which the parameters of invocation c are bound
BindCtx(c) == IF log[c].k = "call" THEN log[c].ctx ELSE log[c].inner
\* the parameter that takes argument j of invocation c, "" when none does
ParamOf(c, j) ==
    IF log[c].k = "instantiate"
    THEN IF j <= Len(log[c].class.args) THEN log[c].class.args[j] ELSE ""
    ELSE IF log[c].k = "method"
    THEN IF j + log[c].shift <= Len(log[c].fn.args)
         THEN log[c].fn.args[j + log[c].shift] ELSE ""
    ELSE IF j <= Len(log[c].fn.args) THEN log[c].fn.args[j] ELSE ""
\* argument j of invocation c is a literal or a name the caller's
\* environment binds, and its value there
CallerArg(c, j) ==
    \/ log[c].args[j].e = "Value"
    \/ log[c].args[j].e = "Let" /\ SnapResolve(log[c].snap, log[c].args[j].name) # 0
CallerValue(c, j) ==
    IF log[c].args[j].e = "Value" THEN log[c].args[j].value
    ELSE SnapResolved(log[c].snap, log[c].args[j].name)
\* the entry that binds the parameter of argument j of invocation c
BindingOf(c, j) ==
    {b \in (c + 1)..Len(log) :
        /\ log[b].k = "bind"
        /\ log[b].ctx = BindCtx(c)
        /\ log[b].name = ParamOf(c, j)}

\* C26: the parameter that takes argument j of a function call, a method call
\* or an instantiation is bound to the value the argument has in the
\* environment of the caller
C26_ArgumentsInCallerEnvironment ==
    \A c \in Entries :
        Invocation(c)
        => \A j \in 1..Len(log[c].args) :
              (CallerArg(c, j) /\ ParamOf(c, j) # "")
              => \A b \in BindingOf(c, j) : log[b].val = CallerValue(c, j)

\* the function and the argument values the spawned thread k was given:
\* those of the two statements the spawn appends to the inherited names
PassedFunction(k) == threads[k].tokens[Len(threads[k].tokens) - 1].value.value
PassedArgs(k) == threads[k].tokens[Len(threads[k].tokens)].args
\* the calls the spawned thread k has made from its top level
TopCalls(k) ==
    {c \in 1..Len(threads[k].log) :
        threads[k].log[c].k = "call" /\ Len(threads[k].log[c].ctx) = 1}

\* C27: a spawned thread that has run its statements has called the function
\* it was given, with the argument values it was given, and no other
C27_SpawnRunsPassedFunction ==
    \A k \in 1..Len(threads) :
        /\ \A c \in TopCalls(k) :
              /\ threads[k].log[c].fn = PassedFunction(k)
              /\ threads[k].log[c].args = PassedArgs(k)
        /\ (threads[k].pc > Len(threads[k].tokens) /\ threads[k].halt = "ok")
              => TopCalls(k) # {}

\* the receiver of the method call of entry c, as the caller sees it
Receiver(c) == SnapResolved(log[c].snap, log[c].receiver)
\* the function entered at entry c is a member of its receiver: declared in
\* the body of the class, or held by the field map of the instance
MemberOfReceiver(c) ==
    IF Receiver(c).t = "Class"
    THEN \E b \in 1..Len(Receiver(c).body) :
            /\ Receiver(c).body[b].t = "Let"
            /\ Receiver(c).body[b].value = Value(log[c].fn)
    ELSE /\ Receiver(c).t = "ClassInstance"
         /\ \E n \in DOMAIN Receiver(c).scope :
               log[c].snap.heap[Receiver(c).scope[n]] = log[c].fn

\* C28: a static call or an instance call enters a function only when the
\* function is a member of its receiver: declared in the body of the class,
\* or held by the field map of the instance
C28_MethodsAreMembers ==
    \A c \in Entries : log[c].k = "method" => MemberOfReceiver(c)

\* entry m is, in the body of the method call of entry c on an instance, a
\* read of or an assignment to a name that the instance holds as a field and
\* the method does not declare as a parameter
FieldAccess(c, m) ==
    /\ log[c].k = "method"
    /\ Receiver(c).t = "ClassInstance"
    /\ log[m].k \in {"read", "assign"}
    /\ IsPrefix(log[c].inner, log[m].ctx)
    /\ \E e \in (c + 1)..(m - 1) : log[e].k = "exec" /\ log[e].ctx = log[c].inner
    /\ log[m].name \in DOMAIN Receiver(c).scope
    /\ \A q \in 1..Len(log[c].fn.args) : log[c].fn.args[q] # log[m].name

\* C29: in the body of a method called on an instance, an assignment to a
\* field writes, and a read of a field reads, the cell the instance holds for
\* that field, through whichever variable the instance is reached; so what
\* one call assigns every later call on the instance reads
C29_FieldCellsShared ==
    \A c \in Entries : \A m \in Entries :
        (c < m /\ FieldAccess(c, m))
        => log[m].cell = Receiver(c).scope[log[m].name]

\* the entries at which the instantiation started at entry c has yielded
\* its instance
Yielded(c) ==
    {d \in (c + 1)..Len(log) :
        log[d].k = "instantiated" /\ log[d].ctx = log[c].ctx}
\* the value the instance of entry d holds under the field name
FieldOf(d, name) == log[d].snap.heap[log[d].val.scope[name]]
\* argument j of the instantiation of entry c names no constructor parameter
PlainArgument(c, j) ==
    \/ log[c].args[j].e = "Value"
    \/ /\ CallerArg(c, j)
       /\ \A q \in 1..Len(log[c].class.args) : log[c].class.args[q] # log[c].args[j].name
\* the instance of entry d is what the instantiation of entry c has to yield
InstanceAsDeclared(c, d) ==
    /\ log[d].val.class = log[c].class
    /\ \A i \in 1..Len(log[c].class.args) :
          /\ log[c].class.args[i] \in DOMAIN log[d].val.scope
          /\ (i <= Len(log[c].args) /\ PlainArgument(c, i))
                => FieldOf(d, log[c].class.args[i]) = CallerValue(c, i)
          /\ i > Len(log[c].args) => FieldOf(d, log[c].class.args[i]) = NullToken
    /\ \A b \in 1..Len(log[c].class.body) :
          log[c].class.body[b].t = "Let"
          => log[c].class.body[b].name \in DOMAIN log[d].val.scope

\* C30: an instantiation with any number of arguments yields an instance of
\* the class whose field map binds the parameters that have an argument to the
\* argument values, the other parameters to Null, and every name the class
\* body declares
C30_InstantiationAnyArity ==
    \A c \in Entries :
        log[c].k = "instantiate"
        => /\ Yielded(c) # {}
           /\ InstanceAsDeclared(c, Min(Yielded(c)))

(***************************************************************************)
(* Method parameters, compound assignment, loops and breaks                *)
(***************************************************************************)
\* entry c starts a call of a method on an instance
InstanceCall(c) == log[c].k = "method" /\ log[c].shift = 1
\* the statements of the body of the call of entry c
BodyStatements(c) ==
    {e \in (c + 1)..Len(log) : log[e].k = "exec" /\ log[e].ctx = log[c].inner}
\* the arguments bound between entry c and the first statement of its body
ArgumentBindings(c) ==
    {b \in (c + 1)..(Min(BodyStatements(c)) - 1) :
        log[b].k = "bind" /\ log[b].ctx = log[c].inner}
\* argument j of the call of entry c is a literal, or a variable of the caller
\* that is neither a field of the instance nor a name the call binds
OuterArgument(c, j) ==
    \/ log[c].args[j].e = "Value"
    \/ /\ CallerArg(c, j)
       /\ log[c].args[j].name \notin DOMAIN Receiver(c).scope
       /\ log[c].args[j].name # "self"
       /\ \A q \in 1..Len(log[c].fn.args) : log[c].fn.args[q] # log[c].args[j].name
\* the value the frame of the method holds under name when the body starts
InMethodFrame(c, name) ==
    log[Min(BodyStatements(c))].snap.heap[TopFrame(log[Min(BodyStatements(c))].snap)[name]]

\* C31: when the body of a method called on an instance starts, parameter
\* j + 1 of the method holds the value of argument j for every argument that
\* has such a parameter, no argument is bound to the first parameter, and
\* self holds the instance
C31_InstanceCallBinding ==
    \A c \in Entries :
        (InstanceCall(c) /\ BodyStatements(c) # {})
        => /\ \A j \in 1..Len(log[c].args) :
                 (j + 1 <= Len(log[c].fn.args) /\ OuterArgument(c, j))
                 => /\ log[c].fn.args[j + 1] \in DOMAIN TopFrame(log[Min(BodyStatements(c))].snap)
                    /\ InMethodFrame(c, log[c].fn.args[j + 1]) = CallerValue(c, j)
           /\ Len(log[c].fn.args) >= 1
                 => \A b \in ArgumentBindings(c) : log[b].name # log[c].fn.args[1]
           /\ "self" \in DOMAIN TopFrame(log[Min(BodyStatements(c))].snap)
           /\ InMethodFrame(c, "self") = Receiver(c)

\* a call with two arguments on a method of three parameters whose first is
\* not named self: the second and third hold the arguments, self the instance
C31_Witness ==
    \E c \in Entries :
        /\ InstanceCall(c)
        /\ BodyStatements(c) # {}
        /\ log[c].fn.args = <<"this", "p", "q">>
        /\ log[c].args = <<Var("x"), Num(2)>>
        /\ InMethodFrame(c, "p") = StringToken("outer x")
        /\ InMethodFrame(c, "q") = NumberToken(2)
        /\ "this" \notin DOMAIN TopFrame(log[Min(BodyStatements(c))].snap)
        /\ InMethodFrame(c, "self").t = "ClassInstance"
        /\ InMethodFrame(c, "self") = Receiver(c)

\* entries i and j are the start and the end of a compound assignment to a
\* name that resolves to a cell, whose operand is a literal or a variable
CompoundAssignment(i, j) ==
    /\ StartOf(i, j)
    /\ log[i].tok.t = "LetAssignNum"
    /\ SnapResolve(log[i].snap, log[i].tok.name) # 0
    /\ \/ log[i].tok.value.e = "Value"
       \/ /\ log[i].tok.value.e = "Let"
          /\ SnapResolve(log[i].snap, log[i].tok.value.name) # 0
\* the cell the name resolves to, what it holds, and the operand's value,
\* when the statement starts
TargetCell(i) == SnapResolve(log[i].snap, log[i].tok.name)
Held(i) == log[i].snap.heap[TargetCell(i)]
OperandValue(i) ==
    IF log[i].tok.value.e = "Value" THEN log[i].tok.value.value
    ELSE SnapResolved(log[i].snap, log[i].tok.value.name)

\* C32: a compound assignment on a name that resolves to a cell leaves in that
\* cell n op v when the cell held the number n and the operand is the number
\* v, and the operand's value when the cell held no number; it changes no
\* other cell and allocates none
C32_CompoundAssignment ==
    \A i \in Entries : \A j \in Entries :
        CompoundAssignment(i, j)
        => /\ (Held(i).t = "Number" /\ OperandValue(i).t = "Number")
                 => log[j].snap.heap[TargetCell(i)]
                      = NumApplied(log[i].tok.operation, Held(i).value, OperandValue(i).value)
           /\ Held(i).t # "Number" => log[j].snap.heap[TargetCell(i)] = OperandValue(i)
           /\ DOMAIN log[j].snap.heap = DOMAIN log[i].snap.heap
           /\ \A d \in DOMAIN log[i].snap.heap :
                 d # TargetCell(i) => log[j].snap.heap[d] = log[i].snap.heap[d]

\* in the body of a function, x, holding MaxVal, has been divided by the
\* variable k
C32_Witness ==
    \E i \in Entries : \E j \in Entries :
        /\ CompoundAssignment(i, j)
        /\ Len(log[i].ctx) > 0
        /\ log[i].tok = LetAssignNumToken("x", "Div", Var("k"))
        /\ Held(i) = NumberToken(MaxVal)
        /\ log[j].snap.heap[TargetCell(i)] = Quotient(MaxVal, MaxVal + 1)
        /\ pc > Len(tokens)

\* entries e and j are the start and the end of a loop statement
LoopRun(e, j) == StartOf(e, j) /\ log[e].tok.t = "Loop"
\* the context of a pass of the loop started at entry e
PassOf(e, ctx) ==
    /\ Len(ctx) = Len(log[e].ctx) + 1
    /\ Front(ctx) = log[e].ctx
    /\ ctx[Len(ctx)].mode = "Loop"
\* the starts of the passes of the loop that runs from entry e to entry j
PassStarts(e, j) ==
    {p \in (e + 1)..(j - 1) : log[p].k = "exec" /\ log[p].i = 1 /\ PassOf(e, log[p].ctx)}
\* the lets executed directly in the body of a pass of that loop
PassLets(e, j) ==
    {l \in (e + 1)..(j - 1) : log[l].k = "let" /\ PassOf(e, log[l].ctx)}
\* the frame the loop of entry e pushed, in the snapshot
LoopFrame(e, snap) == snap.scopes[Len(log[e].snap.scopes) + 1]

\* C33: when a pass of a loop starts the frame the loop pushed is empty; in
\* every pass the first let of a name in the body binds a fresh cell with the
\* value evaluated in that pass; and when the loop has exited a name declared
\* in its body resolves to what the frames below the loop bind it to, if
\* anything
C33_LoopFrameFresh ==
    \A e \in Entries : \A j \in Entries :
        LoopRun(e, j)
        => /\ \A p \in PassStarts(e, j) : LoopFrame(e, log[p].snap) = EmptyMap
           /\ \A l \in PassLets(e, j) :
                 \/ log[l].bound
                 \/ \E f \in (e + 1)..(l - 1) :
                       /\ log[f].k = "let" /\ log[f].ctx = log[l].ctx
                       /\ log[f].name = log[l].name /\ log[f].bound
           /\ \A b \in 1..Len(log[e].tok.body) :
                 log[e].tok.body[b].t = "Let"
                 => SnapResolve(log[j].snap, log[e].tok.body[b].name)
                      = SnapWalk(log[e].snap, log[e].tok.body[b].name)

\* entry b is the end of a break statement executed, directly or inside taken
\* ifs, in the body of a loop that is itself a statement of the body of a loop
NestedBreak(b) ==
    /\ log[b].k = "done"
    /\ log[b].tok.t = "Break"
    /\ Innermost(log[b].ctx, "Loop") >= 2
    /\ log[b].ctx[Innermost(log[b].ctx, "Loop") - 1].mode = "Loop"
    /\ \A c \in (Innermost(log[b].ctx, "Loop") + 1)..Len(log[b].ctx) :
          log[b].ctx[c].mode = "If"
\* the start of the latest loop statement executed in context ctx before entry b
LoopStatement(b, ctx) ==
    Max({e \in 1..(b - 1) : log[e].k = "exec" /\ log[e].ctx = ctx /\ log[e].tok.t = "Loop"})
\* the start of the inner and of the outer loop statement around the break
InnerLoop(b) ==
    LoopStatement(b, SubSeq(log[b].ctx, 1, Innermost(log[b].ctx, "Loop") - 1))
OuterLoop(b) ==
    LoopStatement(b, SubSeq(log[b].ctx, 1, Innermost(log[b].ctx, "Loop") - 2))
\* entry n starts the statement that follows the inner loop in the pass of the
\* outer loop, or the next pass of the outer loop when the inner loop is the
\* last statement of its body
ContinuesOuter(b, n) ==
    IF log[InnerLoop(b)].i < Len(log[OuterLoop(b)].tok.body)
    THEN /\ log[n].ctx = log[InnerLoop(b)].ctx
         /\ log[n].i = log[InnerLoop(b)].i + 1
    ELSE /\ log[n].i = 1
         /\ log[n].ctx # log[InnerLoop(b)].ctx
         /\ PassOf(OuterLoop(b), log[n].ctx)

\* C34: after a break executed in the inner of two nested loops the statement
\* executed next is the one that follows the inner loop in the body of the
\* outer loop (the first of its next pass when there is none), and no pass of
\* a loop is ever stopped by a loop statement of its body
C34_BreakStopsInnerOnly ==
    /\ \A b \in Entries :
          NestedBreak(b)
          => /\ halt = "ok" => NextOfKind(b, "exec") # 0
             /\ NextOfKind(b, "exec") # 0 => ContinuesOuter(b, NextOfKind(b, "exec"))
    /\ \A s \in Entries : log[s].k = "stop" => log[s].tok.t # "Loop"

\* the inner loop has been stopped by a break in each of two passes of the
\* outer loop, which then stopped on a break of its own
C34_Witness ==
    /\ pc > Len(tokens)
    /\ halt = "ok"
    /\ \E b1 \in Entries : \E b2 \in Entries :
          /\ b1 < b2
          /\ NestedBreak(b1) /\ NestedBreak(b2)
          /\ OuterLoop(b1) = OuterLoop(b2)
          /\ InnerLoop(b1) # InnerLoop(b2)
          /\ \E s \in (b2 + 1)..Len(log) :
                /\ log[s].k = "stop"
                /\ PassOf(OuterLoop(b1), log[s].ctx)
                /\ log[s].tok.t = "If"

\* entries i and j are the start and the end of a break statement executed
\* while the call stack holds no loop
LooplessBreak(i, j) ==
    /\ StartOf(i, j)
    /\ log[i].tok.t = "Break"
    /\ \A c \in 1..Len(log[i].snap.call_stack) : log[i].snap.call_stack[c] # "Loop"
\* the statements of the body that the statement of entry i belongs to: the
\* program, the body of the if, or the body of the function or method
EnclosingBody(i) ==
    IF log[i].ctx = <<>> THEN tokens
    ELSE IF log[i].ctx[Len(log[i].ctx)].mode = "If"
    THEN log[Max({e \in 1..(i - 1) :
                    /\ log[e].k = "exec" /\ log[e].tok.t = "If"
                    /\ log[e].ctx = Front(log[i].ctx)})].tok.body
    ELSE IF log[i].ctx[Len(log[i].ctx)].mode = "Function"
    THEN log[Max({c \in 1..(i - 1) :
                    log[c].k \in {"call", "method"} /\ BindCtx(c) = log[i].ctx})].fn.body
    ELSE <<>>

\* C35: a break statement executed while the call stack holds no loop yields
\* the fallthrough signal and leaves frames, cells and call stack as they
\* were, and the statement that follows it in its body is the next one
\* executed
C35_BreakWithoutLoop ==
    \A i \in Entries : \A j \in Entries :
        LooplessBreak(i, j)
        => /\ log[j].res = Fallthrough
           /\ log[j].snap.scopes = log[i].snap.scopes
           /\ log[j].snap.heap = log[i].snap.heap
           /\ log[j].snap.call_stack = log[i].snap.call_stack
           /\ (log[i].i < Len(EnclosingBody(i)) /\ (log[i].ctx # <<>> \/ pc > log[i].i + 1))
                 => /\ j < Len(log)
                    /\ log[j + 1].k = "exec"
                    /\ log[j + 1].ctx = log[i].ctx
                    /\ log[j + 1].i = log[i].i + 1
                    /\ log[j + 1].tok = EnclosingBody(i)[log[i].i + 1]

\* a break in the body of a function called from top level after a loop has
\* exited, followed by the assignment that comes after it in the body
C35_Witness ==
    \E i \in Entries : \E j \in Entries :
        /\ LooplessBreak(i, j)
        /\ Len(log[i].ctx) = 1
        /\ log[i].ctx[1].mode = "Function"
        /\ \E e \in 1..(i - 1) : log[e].k = "done" /\ log[e].tok.t = "Loop"
        /\ j < Len(log)
        /\ log[j + 1].k = "exec"
        /\ log[j + 1].tok = Mark("n")
        /\ pc > Len(tokens)
        /\ heap[scopes[1]["n"]] = NumberToken(1)

(***************************************************************************)
(* Spawned runtimes, the call stack, arrays                                *)
(***************************************************************************)
\* the names the trace tr shows declared: by a let that bound, or as a parameter
DeclaredIn(tr) ==
    {tr[i].name : i \in {e \in 1..Len(tr) :
                            tr[e].k = "bind" \/ (tr[e].k = "let" /\ tr[e].bound)}}
\* the names the spawned thread k was handed at the spawn
HandedOver(k) == {threads[k].tokens[i].name : i \in Inherited(k)}
\* the names the main runtime has declared since it spawned thread k
DeclaredSince(k) ==
    {log[i].name : i \in {e \in Entries :
                             /\ log[e].k = "bind" \/ (log[e].k = "let" /\ log[e].bound)
                             /\ \E l \in 1..(e - 1) :
                                   log[l].k = "launch" /\ log[l].thread = k}}
\* name resolves to a cell in the structures of the spawned thread k
ResolvableIn(k, name) ==
    \/ Resolve(threads[k].scopes, threads[k].lookup_cache,
               threads[k].modified_vars, name) # 0
    \/ Walk(threads[k].scopes, name) # 0
\* name resolves to a cell in the structures of the main runtime
ResolvableInMain(name) == SnapResolve(Now, name) # 0 \/ SnapWalk(Now, name) # 0

\* C36: a name that a spawned thread has declared and the main runtime has
\* not is not resolvable in the main runtime, and a name that the main
\* runtime has declared since the spawn, which the thread was not handed and
\* has not declared, is not resolvable in the thread, in every state of every
\* interleaving
C36_OwnStructures ==
    \A k \in 1..Len(threads) :
        /\ \A x \in DeclaredIn(threads[k].log) \ DeclaredIn(log) : ~ResolvableInMain(x)
        /\ \A x \in DeclaredSince(k) \ (HandedOver(k) \cup DeclaredIn(threads[k].log)) :
              ~ResolvableIn(k, x)

\* the thread has declared z in the body of its function, the main runtime
\* has declared w since the spawn, both have run to their end, and each
\* resolves its own name
C36_Witness ==
    /\ pc > Len(tokens)
    /\ Len(threads) = 1
    /\ threads[1].pc > Len(threads[1].tokens)
    /\ "z" \in DeclaredIn(threads[1].log)
    /\ "main" \in DeclaredIn(threads[1].log)
    /\ "w" \in DeclaredSince(1)
    /\ ResolvableInMain("w")
    /\ ResolvableIn(1, "main")
    /\ \E l \in Entries : log[l].k = "let" /\ log[l].name = "w" /\
          \E m \in 1..Len(threads[1].log) : threads[1].log[m].k = "let" /\ threads[1].log[m].name = "z"

\* entry j is the end of a break statement that found a loop on the call stack
BreakFoundLoop(j) ==
    log[j].k = "done" /\ log[j].tok.t = "Break" /\ ~log[j].res.some

\* C37: when a statement has finished, with the fallthrough value, with no
\* value (a break) or with a Return, the call stack is what it was when the
\* statement started; and a break finds a loop on the call stack only while a
\* loop is being executed
C37_CallStackBalanced ==
    /\ \A i \in Entries : \A j \in Entries :
          StartOf(i, j) => log[j].snap.call_stack = log[i].snap.call_stack
    /\ \A j \in Entries : BreakFoundLoop(j) => Innermost(log[j].ctx, "Loop") > 0
    /\ halt = "ok" => call_stack = <<>>

\* a loop has been stopped by a break and has exited, a function called after
\* it has executed a break that found no loop and has gone on, and the
\* program has finished with an empty call stack
C37_Witness ==
    /\ pc > Len(tokens)
    /\ halt = "ok"
    /\ call_stack = <<>>
    /\ \E d \in Entries :
          /\ log[d].k = "done" /\ log[d].tok.t = "Loop" /\ log[d].ctx = <<>>
          /\ \E b \in 1..(d - 1) : BreakFoundLoop(b)
          /\ \E j \in (d + 1)..Len(log) :
                /\ log[j].k = "done" /\ log[j].tok.t = "Break"
                /\ log[j].res = Fallthrough
                /\ Innermost(log[j].ctx, "Function") > 0
                /\ Len(log[j].snap.call_stack) >= 2

\* entry l is an execution of a let whose right-hand side is an array literal
LiteralLet(l) ==
    /\ log[l].k = "let"
    /\ log[l].bound
    /\ log[l].val.t = "Array"
    /\ log[LetStart(l)].tok.value.e = "Value"
\* the Vec of the array bound by entry l, in the state reached
BoundVec(l) == heap[log[l].val.arc].elems

\* C38: two executions of lets with an array literal on the right bind arrays
\* with a Vec each, so that no push through the variable of one shows in the
\* array of the other
C38_OwnArray ==
    \A l1 \in Entries : \A l2 \in Entries :
        (l1 < l2 /\ LiteralLet(l1) /\ LiteralLet(l2))
        => /\ log[l1].val.arc # log[l2].val.arc
           /\ \A p \in Entries :
                 (log[p].k = "push" /\ log[p].arc = log[l1].val.arc)
                 => log[p].arc # log[l2].val.arc

====
